---- MODULE Spec2Model ----
(***************************************************************************)
(* Garage schedule management: the calendar / week derivation functions of *)
(* _components/utils.ts, the calendar grid of CalendarView, the slot       *)
(* generator, and the navigation state of GarageSetupPage.                 *)
(*                                                                         *)
(* A JavaScript Date is modelled as an instant: whole hours since the Unix *)
(* epoch (UTC).  The host's UTC offset tz (hours, fixed for a run) turns   *)
(* an instant into local calendar fields; toISOString uses UTC fields.     *)
(* A YYYY-MM-DD string is modelled by its three fields, a tuple            *)
(* <<year, month 1..12, day>>; string order is the order of the tuples.    *)
(* An HH:MM string is modelled as the sequence of its characters.          *)
(***************************************************************************)
EXTENDS Integers, Sequences, FiniteSets, TLC

\* ------------------------------------------------------------------------
\* Bounds of the model
\* ------------------------------------------------------------------------

\* selectable years are 2024 .. 2024 + MaxYearSpan
MaxYearSpan == 2

\* most iterations of the slot loop that are followed
MaxSlots == 48

\* most requests that are in flight at a time
MaxInFlight == 1

\* most requests in flight at which a further handler is followed, where the
\* schedule loads are followed
MaxPending == 2

Years == 2024..(2024 + MaxYearSpan)

\* years over which an instant is converted back to calendar fields
CivilYears == 2022..(2026 + MaxYearSpan)

\* UTC offsets of the host, in hours (west of, at, east of Greenwich)
TzOffsets == {-5, 0, 6}

\* dates the clock may show: the first day of a year, a Wednesday, and a
\* Sunday that is the 1st of a 28-day February
Todays == { <<2025, 1, 1>>, <<2026, 2, 1>> }

\* the calendar cells the user clicks, by the date string of the cell: the
\* Sunday 1st of a month and the day before it, a later Sunday of that month,
\* the turn of a year, and the first and last day of a 28-day February that
\* starts on a Sunday
ClickDates == { <<2025, 5, 31>>, <<2025, 6, 1>>, <<2025, 6, 8>>,
                <<2024, 12, 31>>, <<2025, 1, 1>>,
                <<2026, 2, 1>>, <<2026, 2, 28>> }

\* what the user may type into the token field
TokenInputs == { <<>>, <<" ">>, <<" ", "t", "k", " ">> }

\* arguments of generateTimeSlots
TimeInputs == { <<"0", "0", ":", "0", "0">>, <<"0", "9", ":", "0", "0">>,
                <<"0", "9", ":", "4", "5">>, <<"1", "7", ":", "0", "0">>,
                <<"2", "3", ":", "5", "9">> }

DurationInputs == {-30, 0, 30, 45, 60, 90}

\* week indices handed to getWeekStartDate and generateWeekData: more than a
\* year back, the week before the month, the rows of a month, a year ahead
WeekIndexInputs == {-60, -1, 0, 1, 4, 5, 60}

\* the two cells of January 2025 the user clicks to configure a day: the
\* 1st, in week 0, and the 8th, in week 1
ConfigDates == { <<2025, 1, 1>>, <<2025, 1, 8>> }

\* the one date whose day type the user sets
DayTypeDates == { <<2025, 1, 8>> }

\* the day types of the three buttons under the calendar
DayTypes == {"working", "weekend", "holiday"}

\* what the user may enter into the two time inputs of the time-setting modal
StartTimeEdits == { <<"0", "8", ":", "0", "0">> }

EndTimeEdits == { <<"1", "2", ":", "0", "0">> }

\* the options of the duration select that the user picks
SlotDurationOptions == {90}

\* the months picked in the month select where the loads are followed
LoadMonths == {0, 1}

\* lengths of the pattern handed to setWeeklyPattern: none, one short, the
\* seven days of a week, one more
PatternLengths == {0, 6, 7, 8}

\* the days that are open in a pattern: none, Monday to Friday, every day
OpenDaySets == { {}, {1, 2, 3, 4, 5}, {0, 1, 2, 3, 4, 5, 6} }

\* values of daysToGenerate handed to setWeeklyPattern: below, at and above
\* the two limits, and the default
DaysToGenerateInputs == {-1, 0, 1, 30, 365, 366}

VARIABLES
    tz,                   \* UTC offset of the host, hours
    today,                \* local civil date of the clock, <<y, m1, d>>
    token,                \* AuthModal input, a sequence of characters
    isAuthenticated,
    checkingResetState,
    isResetState,
    showWeeklyPatternModal,
    isInitialized,
    currentWeekIndex,
    selectedMonth,
    selectedYear,
    selectedCalendarDate, \* date string or NoDate
    currentWeekData,      \* sequence of WeekDay records
    availabilityData,     \* function: date string -> DayAvailability
    lastOp,               \* the handler that produced this state
    apiToken,             \* GarageApiService.token
    showTimeModal,
    selectedDate,         \* date string or NoDate
    selectedDayType,      \* "working" | "weekend" | "holiday"
    timeSlots,            \* sequence of [start, end]
    slotDuration,         \* minutes
    modalStartTime,       \* TimeSettingModal: its own startTime
    modalEndTime,         \* TimeSettingModal: its own endTime
    previewSlots,         \* TimeSettingModal: the slots it previews
    loading,
    inFlight,             \* the requests sent and not yet answered
    daySlots,             \* the slots shown for selectedDate
    showSlotModal,
    completedLoads,       \* history: the schedule loads answered so far
    \* one call of generateTimeSlots, followed through its loop
    gtsPc,                \* "idle" | "called" | "loop" | "done"
    gtsStartTime,         \* argument startTime, an HH:MM string
    gtsEndTime,           \* argument endTime, an HH:MM string
    gtsSlotDuration,      \* argument slotDuration, minutes
    currentMinutes,       \* the loop variable
    slots,                \* the slots pushed so far
    \* one call of GarageApiService.setWeeklyPattern
    swpPc,                \* "idle" | "called" | "fetching" | "returned"
    swpPattern,           \* argument pattern, a sequence of WeeklyPatternDay
    swpDaysToGenerate,    \* argument daysToGenerate
    swpResult,            \* the ApiResponse the call resolved to
    fetchLog              \* the HTTP requests the call has issued

\* the state behind the day-type buttons, the time-setting modal and the
\* requests they send
configVars == <<showTimeModal, selectedDate, selectedDayType, timeSlots,
                slotDuration, modalStartTime, modalEndTime, previewSlots,
                loading, inFlight, daySlots, showSlotModal>>

pageVars == <<tz, today, token, isAuthenticated, checkingResetState, isResetState,
              showWeeklyPatternModal, isInitialized, currentWeekIndex,
              selectedMonth, selectedYear, selectedCalendarDate,
              currentWeekData, availabilityData, lastOp, apiToken, configVars,
              completedLoads>>

gtsVars == <<gtsPc, gtsStartTime, gtsEndTime, gtsSlotDuration, currentMinutes, slots>>

swpVars == <<swpPc, swpPattern, swpDaysToGenerate, swpResult, fetchLog>>

vars == <<pageVars, gtsVars, swpVars, completedLoads>>

\* null, for a date state that holds no date
NoDate == <<>>

\* undefined, for an optional field that is absent
Undefined == [type |-> "undefined"]

\* undefined or "", for a time string that is absent; the code reads both
\* with ||, which takes them alike
NoTime == <<>>

\* the HH:MM string of four digit characters
HHMM(h1, h2, m1, m2) == <<h1, h2, ":", m1, m2>>

\* ------------------------------------------------------------------------
\* Arithmetic of the JavaScript runtime
\* ------------------------------------------------------------------------

Max(a, b) == IF a >= b THEN a ELSE b

\* Math.floor(a / b), b > 0
FloorDiv(a, b) == a \div b

\* Math.ceil(a / b), b > 0
CeilDiv(a, b) == -((-a) \div b)

\* a % b of JavaScript: the sign follows the dividend
JsRem(a, b) == IF a >= 0 THEN a % b ELSE -((-a) % b)

\* ------------------------------------------------------------------------
\* The Gregorian calendar behind Date
\* ------------------------------------------------------------------------

IsLeap(y) == (y % 4 = 0 /\ y % 100 # 0) \/ (y % 400 = 0)

\* month is 0-based
DaysInMonth(m, y) ==
    IF m = 1 THEN (IF IsLeap(y) THEN 29 ELSE 28)
    ELSE IF m \in {3, 5, 8, 10} THEN 30 ELSE 31

LeapsBefore(y) == ((y - 1) \div 4) - ((y - 1) \div 100) + ((y - 1) \div 400)

\* days from 1970-01-01 to January 1st of y
DaysBeforeYear(y) == 365 * (y - 1970) + LeapsBefore(y) - LeapsBefore(1970)

\* days of a common year before the 1st of each month
CumulativeDays == <<0, 31, 59, 90, 120, 151, 181, 212, 243, 273, 304, 334>>

DaysBeforeMonth(m, y) ==
    CumulativeDays[m + 1] + (IF m > 1 /\ IsLeap(y) THEN 1 ELSE 0)

\* day number of (y, m, d); month and day outside their range carry over,
\* as the Date constructor does (month 12 is next January, day 0 the last
\* day of the month before)
DayNumber(y, m, d) ==
    LET yy == y + (m \div 12)
        mm == m % 12
    IN DaysBeforeYear(yy) + DaysBeforeMonth(mm, yy) + d - 1

\* the calendar fields <<year, month 0..11, day>> of every day number of
\* CivilYears, tabulated
CivilTable ==
    [ n \in DaysBeforeYear(2022)..(DaysBeforeYear(2027 + MaxYearSpan) - 1) |->
        LET y == CHOOSE yy \in CivilYears :
                     DaysBeforeYear(yy) <= n /\ n < DaysBeforeYear(yy + 1)
            m == CHOOSE mm \in 0..11 :
                     /\ DayNumber(y, mm, 1) <= n
                     /\ n < DayNumber(y, mm, 1) + DaysInMonth(mm, y)
        IN <<y, m, n - DayNumber(y, m, 1) + 1>> ]

YearOfDay(n) == CivilTable[n][1]

MonthOfDay(n) == CivilTable[n][2]

DateOfDay(n) == CivilTable[n][3]

\* 1970-01-01 was a Thursday; 0 = Sunday
WeekdayOfDay(n) == (n + 4) % 7

\* ------------------------------------------------------------------------
\* Date objects
\* ------------------------------------------------------------------------

\* new Date(year, month, day): local midnight
NewDate(y, m, d) == 24 * DayNumber(y, m, d) - tz

LocalDay(t) == (t + tz) \div 24

GetFullYear(t) == YearOfDay(LocalDay(t))
GetMonth(t) == MonthOfDay(LocalDay(t))
GetDate(t) == DateOfDay(LocalDay(t))
GetDay(t) == WeekdayOfDay(LocalDay(t))

\* getTime(), in hours: the millisecond count of the source divided by the
\* 3600000 that every instant of the model is a multiple of
GetTime(t) == t

\* 1000 * 60 * 60 * 24 * 7 milliseconds, in hours
WeekOfTime == 24 * 7

\* date.setDate(n): day n of the date's local month, same local time of day
SetDate(t, n) ==
    24 * DayNumber(GetFullYear(t), GetMonth(t), n) + ((t + tz) % 24) - tz

\* `${getFullYear()}-${pad(getMonth() + 1)}-${pad(getDate())}`
LocalDateString(t) == <<GetFullYear(t), GetMonth(t) + 1, GetDate(t)>>

\* date.toISOString().split("T")[0]: the UTC calendar date of the instant
ToISODateString(t) ==
    LET n == t \div 24
    IN <<YearOfDay(n), MonthOfDay(n) + 1, DateOfDay(n)>>

\* new Date("YYYY-MM-DD"): a date-only string is read as UTC midnight
ParseDate(s) == 24 * DayNumber(s[1], s[2] - 1, s[3])

\* s1 <= s2 and s1 < s2 of two YYYY-MM-DD strings
DateLeq(s1, s2) ==
    \/ s1[1] < s2[1]
    \/ s1[1] = s2[1] /\ s1[2] < s2[2]
    \/ s1[1] = s2[1] /\ s1[2] = s2[2] /\ s1[3] <= s2[3]

DateLt(s1, s2) == DateLeq(s1, s2) /\ s1 # s2

\* the civil date k days after the civil date s
AddDays(s, k) ==
    LET n == DayNumber(s[1], s[2] - 1, s[3]) + k
    IN <<YearOfDay(n), MonthOfDay(n) + 1, DateOfDay(n)>>

\* the date strings of the days of month m (0-based) of year y
DatesOfMonth(m, y) == { <<y, m + 1, d>> : d \in 1..DaysInMonth(m, y) }

\* ------------------------------------------------------------------------
\* utils.ts
\* ------------------------------------------------------------------------

getCurrentDate == today

isToday(dateStr) == dateStr = getCurrentDate

\* getWeekStartDate counting the weeks from the 1st, not from its Sunday
getWeekStartDate_FromFirstDay(weekIndex, month, year) ==
    LET firstDay == NewDate(year, month, 1)
        weekStart == SetDate(firstDay, GetDate(firstDay) + weekIndex * 7)
    IN LocalDateString(weekStart)

getWeekStartDate(weekIndex, month, year) ==
    LET firstDay == NewDate(year, month, 1)
        firstSunday == SetDate(firstDay, 1 - GetDay(firstDay))
        weekStart == SetDate(firstSunday, GetDate(firstSunday) + weekIndex * 7)
    IN LocalDateString(weekStart)

getWeekIndexForDate(dateStr, month, year) ==
    LET targetDate == ParseDate(dateStr)
        targetDay == GetDate(targetDate)
        firstDay == NewDate(year, month, 1)
        firstDayOfWeek == GetDay(firstDay)
        weekIndex == FloorDiv(firstDayOfWeek + targetDay - 2, 7)
    IN Max(0, weekIndex)

dayNames == <<"Sunday", "Monday", "Tuesday", "Wednesday", "Thursday",
              "Friday", "Saturday">>

\* the template used for a date that has no entry in availabilityData
FallbackAvailability ==
    [type |-> "working",
     timeSlots |-> << [start |-> HHMM("1", "0", "0", "0"),
                       end |-> HHMM("1", "8", "0", "0")] >>,
     start_time |-> HHMM("1", "0", "0", "0"),
     end_time |-> HHMM("1", "8", "0", "0"),
     slot_duration |-> 60]

\* generateWeekData giving every day the template, whatever the map holds
generateWeekData_AlwaysFallback(weekIndex, month, year, availability) ==
    LET firstDay == NewDate(year, month, 1)
        firstSunday == SetDate(firstDay, 1 - GetDay(firstDay))
        weekStart == SetDate(firstSunday, GetDate(firstSunday) + weekIndex * 7)
    IN [ j \in 1..7 |->
           LET i == j - 1
               currentDate == SetDate(weekStart, GetDate(weekStart) + i)
               dateStr == ToISODateString(currentDate)
           IN [ day |-> dayNames[i + 1],
                date |-> dateStr,
                availability |-> FallbackAvailability,
                isCurrentMonth |-> GetMonth(currentDate) = month ] ]

generateWeekData(weekIndex, month, year, availability) ==
    LET firstDay == NewDate(year, month, 1)
        firstSunday == SetDate(firstDay, 1 - GetDay(firstDay))
        weekStart == SetDate(firstSunday, GetDate(firstSunday) + weekIndex * 7)
    IN [ j \in 1..7 |->
           LET i == j - 1
               currentDate == SetDate(weekStart, GetDate(weekStart) + i)
               dateStr == ToISODateString(currentDate)
           IN [ day |-> dayNames[i + 1],
                date |-> dateStr,
                availability |->
                    IF dateStr \in DOMAIN availability
                    THEN availability[dateStr]
                    ELSE FallbackAvailability,
                isCurrentMonth |-> GetMonth(currentDate) = month ] ]

\* getTotalWeeksInMonth with Math.floor in place of Math.ceil
getTotalWeeksInMonth_Floor(month, year) ==
    LET firstDay == NewDate(year, month, 1)
        lastDay == NewDate(year, month + 1, 0)
        firstSunday == SetDate(firstDay, 1 - GetDay(firstDay))
        lastSaturday == SetDate(lastDay, GetDate(lastDay) + (6 - GetDay(lastDay)))
        diffTime == GetTime(lastSaturday) - GetTime(firstSunday)
        diffWeeks == FloorDiv(diffTime, WeekOfTime)
    IN Max(1, diffWeeks)

getTotalWeeksInMonth(month, year) ==
    LET firstDay == NewDate(year, month, 1)
        lastDay == NewDate(year, month + 1, 0)
        firstSunday == SetDate(firstDay, 1 - GetDay(firstDay))
        lastSaturday == SetDate(lastDay, GetDate(lastDay) + (6 - GetDay(lastDay)))
        diffTime == GetTime(lastSaturday) - GetTime(firstSunday)
        diffWeeks == CeilDiv(diffTime, WeekOfTime)
    IN Max(1, diffWeeks)

findCurrentWeek ==
    LET currentMonth == today[2] - 1
        currentYear == today[1]
        weekIndex == getWeekIndexForDate(getCurrentDate, currentMonth, currentYear)
    IN [month |-> currentMonth, year |-> currentYear,
        weekIndex |-> Max(0, weekIndex)]

\* ------------------------------------------------------------------------
\* CalendarView: the calendar grid
\* ------------------------------------------------------------------------

Cell(dateStr, day, inMonth, weekIndex, availability) ==
    [ date |-> dateStr,
      day |-> day,
      isCurrentMonth |-> inMonth,
      isToday |-> isToday(dateStr),
      availability |-> IF dateStr \in DOMAIN availability
                       THEN availability[dateStr] ELSE Undefined,
      weekIndex |-> weekIndex ]

\* the leading cells dated in the displayed year even when the month is January
PrevMonthCells_SameYear(month, year, availability) ==
    LET firstDayOfMonth == NewDate(year, month, 1)
        firstDayOfWeek == GetDay(firstDayOfMonth)
        prevMonth == IF month = 0 THEN 11 ELSE month - 1
        prevYear == year
        daysInPrevMonth == GetDate(NewDate(year, month, 0))
    IN [ k \in 1..firstDayOfWeek |->
           LET i == firstDayOfWeek - k
               day == daysInPrevMonth - i
               date == NewDate(prevYear, prevMonth, day)
               weekIndex == FloorDiv(firstDayOfWeek - 1 - i + day - 1, 7)
           IN Cell(ToISODateString(date), day, FALSE, weekIndex, availability) ]

\* the cells of the previous month that lead the first row
PrevMonthCells(month, year, availability) ==
    LET firstDayOfMonth == NewDate(year, month, 1)
        firstDayOfWeek == GetDay(firstDayOfMonth)
        prevMonth == IF month = 0 THEN 11 ELSE month - 1
        prevYear == IF month = 0 THEN year - 1 ELSE year
        daysInPrevMonth == GetDate(NewDate(year, month, 0))
    IN [ k \in 1..firstDayOfWeek |->
           LET i == firstDayOfWeek - k
               day == daysInPrevMonth - i
               date == NewDate(prevYear, prevMonth, day)
               weekIndex == FloorDiv(firstDayOfWeek - 1 - i + day - 1, 7)
           IN Cell(ToISODateString(date), day, FALSE, weekIndex, availability) ]

\* the cells of the displayed month
CurrentMonthCells(month, year, availability) ==
    LET firstDayOfMonth == NewDate(year, month, 1)
        lastDayOfMonth == NewDate(year, month + 1, 0)
        firstDayOfWeek == GetDay(firstDayOfMonth)
        daysInMonth == GetDate(lastDayOfMonth)
    IN [ day \in 1..daysInMonth |->
           LET date == NewDate(year, month, day)
               weekIndex == FloorDiv(firstDayOfWeek + day - 2, 7)
           IN Cell(ToISODateString(date), day, TRUE, weekIndex, availability) ]

\* a grid of six rows whatever the month
TotalCells_SixRows(length) == 6 * 7

\* Math.ceil(calendarDays.length / 7) * 7
TotalCells(length) == CeilDiv(length, 7) * 7

\* the cells of the next month that complete the last row
NextMonthCells(month, year, length, availability) ==
    LET totalCells == TotalCells(length)
        nextMonth == IF month = 11 THEN 0 ELSE month + 1
        nextYear == IF month = 11 THEN year + 1 ELSE year
    IN [ day \in 1..(totalCells - length) |->
           LET date == NewDate(nextYear, nextMonth, day)
               weekIndex == FloorDiv(length + day - 1, 7)
           IN Cell(ToISODateString(date), day, FALSE, weekIndex, availability) ]

generateCalendarDays(month, year, availability) ==
    LET lead == PrevMonthCells(month, year, availability) \o
                CurrentMonthCells(month, year, availability)
    IN lead \o NextMonthCells(month, year, Len(lead), availability)

\* weeks: the grid cut into rows of 7
CalendarWeeks(calendarDays) ==
    [ r \in 1..CeilDiv(Len(calendarDays), 7) |->
        SubSeq(calendarDays, 7 * (r - 1) + 1,
               IF 7 * r <= Len(calendarDays) THEN 7 * r ELSE Len(calendarDays)) ]

\* ------------------------------------------------------------------------
\* Strings of the slot generator
\* ------------------------------------------------------------------------

DigitChars == <<"0", "1", "2", "3", "4", "5", "6", "7", "8", "9">>

DigitValue(c) == (CHOOSE i \in 1..10 : DigitChars[i] = c) - 1

\* Number(s) of a string of decimal digits
RECURSIVE StringToNumber(_)
StringToNumber(s) ==
    IF s = <<>> THEN 0
    ELSE 10 * StringToNumber(SubSeq(s, 1, Len(s) - 1)) + DigitValue(s[Len(s)])

\* String(n) of an integer
RECURSIVE NaturalToString(_)
NaturalToString(n) ==
    IF n < 10 THEN <<DigitChars[n + 1]>>
    ELSE NaturalToString(n \div 10) \o <<DigitChars[(n % 10) + 1]>>

NumberToString(n) ==
    IF n < 0 THEN <<"-">> \o NaturalToString(-n) ELSE NaturalToString(n)

\* s.padStart(2, "0")
PadStart2(s) == IF Len(s) < 2 THEN <<"0">> \o s ELSE s

\* s.split(":"): the parts before and after the first colon
SplitColon(s) ==
    LET k == CHOOSE i \in 1..Len(s) :
                 s[i] = ":" /\ \A j \in 1..(i - 1) : s[j] # ":"
    IN << SubSeq(s, 1, k - 1), SubSeq(s, k + 1, Len(s)) >>

\* const [h, m] = time.split(":").map(Number); h * 60 + m
TimeToMinutes(time) ==
    LET parts == SplitColon(time)
    IN StringToNumber(parts[1]) * 60 + StringToNumber(parts[2])

\* the time without padStart
MinutesToTime_NoPad(minutes) ==
    NumberToString(FloorDiv(minutes, 60)) \o <<":">> \o
    NumberToString(JsRem(minutes, 60))

\* `${pad(Math.floor(minutes / 60))}:${pad(minutes % 60)}`
MinutesToTime(minutes) ==
    PadStart2(NumberToString(FloorDiv(minutes, 60))) \o <<":">> \o
    PadStart2(NumberToString(JsRem(minutes, 60)))

\* ------------------------------------------------------------------------
\* utils.ts: generateTimeSlots, one step per loop iteration
\* ------------------------------------------------------------------------

\* the loop condition with < in place of <=
SlotFits_Strict(current, duration, endMinutes) == current + duration < endMinutes

\* the loop condition: currentMinutes + slotDuration <= endMinutes
SlotFits(current, duration, endMinutes) == current + duration <= endMinutes

\* the slot pushed by one iteration
SlotAt(current, duration) ==
    [start |-> MinutesToTime(current), end |-> MinutesToTime(current + duration)]

\* entry: the arguments are parsed and the loop variable is initialised
gtsEnter ==
    /\ gtsPc = "called"
    /\ gtsPc' = "loop"
    /\ currentMinutes' = TimeToMinutes(gtsStartTime)
    /\ slots' = <<>>
    /\ UNCHANGED <<gtsStartTime, gtsEndTime, gtsSlotDuration, pageVars, swpVars>>

\* one iteration of the for loop
gtsIterate ==
    /\ gtsPc = "loop"
    /\ SlotFits(currentMinutes, gtsSlotDuration, TimeToMinutes(gtsEndTime))
    /\ Len(slots) < MaxSlots
    /\ slots' = Append(slots, SlotAt(currentMinutes, gtsSlotDuration))
    /\ currentMinutes' = currentMinutes + gtsSlotDuration
    /\ UNCHANGED <<gtsPc, gtsStartTime, gtsEndTime, gtsSlotDuration, pageVars, swpVars>>

\* the loop condition fails: return slots
gtsReturn ==
    /\ gtsPc = "loop"
    /\ ~SlotFits(currentMinutes, gtsSlotDuration, TimeToMinutes(gtsEndTime))
    /\ gtsPc' = "done"
    /\ UNCHANGED <<gtsStartTime, gtsEndTime, gtsSlotDuration, currentMinutes,
                   slots, pageVars, swpVars>>

\* the loop run to its end from currentMinutes = current
RECURSIVE SlotsFrom(_, _, _)
SlotsFrom(current, duration, endMinutes) ==
    IF SlotFits(current, duration, endMinutes)
    THEN <<SlotAt(current, duration)>> \o
         SlotsFrom(current + duration, duration, endMinutes)
    ELSE <<>>

\* generateTimeSlots as the page and the modal call it, with a positive
\* duration: the value the call returns
generateTimeSlots(start, end, duration) ==
    SlotsFrom(TimeToMinutes(start), duration, TimeToMinutes(end))

\* ------------------------------------------------------------------------
\* GarageSetupPage: authentication and the reset-state check
\* ------------------------------------------------------------------------

\* s.trim()
RECURSIVE Trim(_)
Trim(s) ==
    IF s = <<>> THEN s
    ELSE IF Head(s) = " " THEN Trim(Tail(s))
    ELSE IF s[Len(s)] = " " THEN Trim(SubSeq(s, 1, Len(s) - 1))
    ELSE s

\* the week-data effect: it runs when one of its dependencies changed, and
\* then recomputes currentWeekData unless the page is not initialised, not
\* authenticated or in reset state
WeekDataEffect(newIndex, newMonth, newYear, newInit, newAuth, newReset) ==
    IF /\ <<newIndex, newMonth, newYear, newInit, newAuth, newReset>> #
          <<currentWeekIndex, selectedMonth, selectedYear, isInitialized,
            isAuthenticated, isResetState>>
       /\ newInit /\ newAuth /\ ~newReset
    THEN generateWeekData(newIndex, newMonth, newYear, availabilityData)
    ELSE currentWeekData

\* AuthModal: typing into the token field
setToken(value) ==
    /\ ~isAuthenticated
    /\ token' = value
    /\ lastOp' = "setToken"
    /\ UNCHANGED <<tz, today, isAuthenticated, checkingResetState, isResetState,
                   showWeeklyPatternModal, isInitialized, currentWeekIndex,
                   selectedMonth, selectedYear, selectedCalendarDate,
                   currentWeekData, availabilityData, apiToken, configVars,
                   gtsVars, swpVars, completedLoads>>

\* handleProceed without the check for a blank token
handleProceed_NoBlankCheck ==
    /\ ~isAuthenticated
    /\ lastOp' = "handleProceed"
    /\ apiToken' = Trim(token)
    /\ isAuthenticated' = TRUE
    /\ checkingResetState' = TRUE
    /\ UNCHANGED <<tz, today, token, isResetState, showWeeklyPatternModal,
                   isInitialized, currentWeekIndex, selectedMonth, selectedYear,
                   selectedCalendarDate, currentWeekData, availabilityData,
                   configVars, gtsVars, swpVars, completedLoads>>

\* handleProceed, up to the await inside checkResetState
handleProceed ==
    /\ ~isAuthenticated
    /\ lastOp' = "handleProceed"
    /\ IF Trim(token) = <<>>
       THEN UNCHANGED <<apiToken, isAuthenticated, checkingResetState>>
       ELSE /\ apiToken' = Trim(token)
            /\ isAuthenticated' = TRUE
            /\ checkingResetState' = TRUE
    /\ UNCHANGED <<tz, today, token, isResetState, showWeeklyPatternModal,
                   isInitialized, currentWeekIndex, selectedMonth, selectedYear,
                   selectedCalendarDate, currentWeekData, availabilityData,
                   configVars, gtsVars, swpVars, completedLoads>>

\* checkResetState after its await, followed by the initialisation effect
\* (findCurrentWeek) and the week-data effect that the new state triggers;
\* the page now renders its modals, and the mounted TimeSettingModal runs its
\* preview effect
checkResetStateDone(outcome) ==
    /\ checkingResetState
    /\ lastOp' = "checkResetState"
    /\ isResetState' = (outcome = "is_reset")
    /\ showWeeklyPatternModal' =
           (IF outcome = "is_reset" THEN TRUE ELSE showWeeklyPatternModal)
    /\ checkingResetState' = FALSE
    /\ IF ~isInitialized /\ isAuthenticated
       THEN /\ selectedMonth' = findCurrentWeek.month
            /\ selectedYear' = findCurrentWeek.year
            /\ currentWeekIndex' = findCurrentWeek.weekIndex
            /\ isInitialized' = TRUE
       ELSE UNCHANGED <<selectedMonth, selectedYear, currentWeekIndex, isInitialized>>
    /\ currentWeekData' =
           WeekDataEffect(currentWeekIndex', selectedMonth', selectedYear',
                          isInitialized', isAuthenticated, isResetState')
    /\ previewSlots' = generateTimeSlots(modalStartTime, modalEndTime, slotDuration)
    /\ UNCHANGED <<tz, today, token, isAuthenticated, selectedCalendarDate,
                   availabilityData, apiToken, showTimeModal, selectedDate,
                   selectedDayType, timeSlots, slotDuration, modalStartTime,
                   modalEndTime, loading, inFlight, daySlots, showSlotModal,
                   gtsVars, swpVars, completedLoads>>

\* the page shows the week view and the calendar
PageRendered == isAuthenticated /\ ~checkingResetState

\* ------------------------------------------------------------------------
\* GarageSetupPage: navigation
\* ------------------------------------------------------------------------

\* the state common to the navigation handlers: what they never touch
NavigationFrame ==
    UNCHANGED <<tz, today, token, isAuthenticated, checkingResetState,
                isResetState, showWeeklyPatternModal, isInitialized,
                availabilityData, apiToken, configVars, gtsVars, swpVars, completedLoads>>

\* navigateToPreviousWeek without the step to the year before
navigateToPreviousWeek_NoYearWrap ==
    /\ PageRendered
    /\ lastOp' = "navigateToPreviousWeek"
    /\ IF currentWeekIndex > 0
       THEN /\ currentWeekIndex' = currentWeekIndex - 1
            /\ UNCHANGED <<selectedMonth, selectedYear>>
       ELSE LET newMonth == IF selectedMonth - 1 < 0 THEN 11 ELSE selectedMonth - 1
                newYear == selectedYear
            IN /\ selectedMonth' = newMonth
               /\ selectedYear' = newYear
               /\ currentWeekIndex' = getTotalWeeksInMonth(newMonth, newYear) - 1
    /\ currentWeekData' =
           WeekDataEffect(currentWeekIndex', selectedMonth', selectedYear',
                          isInitialized, isAuthenticated, isResetState)
    /\ UNCHANGED selectedCalendarDate
    /\ NavigationFrame

navigateToPreviousWeek ==
    /\ PageRendered
    /\ lastOp' = "navigateToPreviousWeek"
    /\ IF currentWeekIndex > 0
       THEN /\ currentWeekIndex' = currentWeekIndex - 1
            /\ UNCHANGED <<selectedMonth, selectedYear>>
       ELSE LET newMonth == IF selectedMonth - 1 < 0 THEN 11 ELSE selectedMonth - 1
                newYear == IF selectedMonth - 1 < 0 THEN selectedYear - 1
                                                   ELSE selectedYear
            IN /\ newYear \in Years
               /\ selectedMonth' = newMonth
               /\ selectedYear' = newYear
               /\ currentWeekIndex' = getTotalWeeksInMonth(newMonth, newYear) - 1
    /\ currentWeekData' =
           WeekDataEffect(currentWeekIndex', selectedMonth', selectedYear',
                          isInitialized, isAuthenticated, isResetState)
    /\ UNCHANGED selectedCalendarDate
    /\ NavigationFrame

navigateToNextWeek ==
    /\ PageRendered
    /\ lastOp' = "navigateToNextWeek"
    /\ LET totalWeeks == getTotalWeeksInMonth(selectedMonth, selectedYear)
       IN IF currentWeekIndex < totalWeeks - 1
          THEN /\ currentWeekIndex' = currentWeekIndex + 1
               /\ UNCHANGED <<selectedMonth, selectedYear>>
          ELSE LET newMonth == IF selectedMonth + 1 > 11 THEN 0 ELSE selectedMonth + 1
                   newYear == IF selectedMonth + 1 > 11 THEN selectedYear + 1
                                                       ELSE selectedYear
               IN /\ newYear \in Years
                  /\ selectedMonth' = newMonth
                  /\ selectedYear' = newYear
                  /\ currentWeekIndex' = 0
    /\ currentWeekData' =
           WeekDataEffect(currentWeekIndex', selectedMonth', selectedYear',
                          isInitialized, isAuthenticated, isResetState)
    /\ UNCHANGED selectedCalendarDate
    /\ NavigationFrame

\* the dates the calendar lets the user click: cells of the displayed month
SelectableDates ==
    LET calendarDays == generateCalendarDays(selectedMonth, selectedYear,
                                             availabilityData)
    IN { calendarDays[k].date :
           k \in { j \in 1..Len(calendarDays) : calendarDays[j].isCurrentMonth } }

handleDateSelect(dateStr) ==
    /\ PageRendered
    /\ lastOp' = "handleDateSelect"
    /\ selectedCalendarDate' = dateStr
    /\ LET targetDate == ParseDate(dateStr)
           targetMonth == GetMonth(targetDate)
           targetYear == GetFullYear(targetDate)
       IN /\ targetYear \in Years
          /\ IF targetMonth # selectedMonth \/ targetYear # selectedYear
             THEN /\ selectedMonth' = targetMonth
                  /\ selectedYear' = targetYear
                  /\ currentWeekIndex' =
                         getWeekIndexForDate(dateStr, targetMonth, targetYear)
             ELSE /\ currentWeekIndex' =
                         getWeekIndexForDate(dateStr, selectedMonth, selectedYear)
                  /\ UNCHANGED <<selectedMonth, selectedYear>>
    /\ currentWeekData' =
           WeekDataEffect(currentWeekIndex', selectedMonth', selectedYear',
                          isInitialized, isAuthenticated, isResetState)
    /\ NavigationFrame

handleMonthChange(month) ==
    /\ PageRendered
    /\ lastOp' = "handleMonthChange"
    /\ selectedMonth' = month
    /\ currentWeekIndex' = 0
    /\ currentWeekData' =
           WeekDataEffect(0, month, selectedYear,
                          isInitialized, isAuthenticated, isResetState)
    /\ UNCHANGED <<selectedYear, selectedCalendarDate>>
    /\ NavigationFrame

handleYearChange(year) ==
    /\ PageRendered
    /\ lastOp' = "handleYearChange"
    /\ selectedYear' = year
    /\ currentWeekIndex' = 0
    /\ currentWeekData' =
           WeekDataEffect(0, selectedMonth, year,
                          isInitialized, isAuthenticated, isResetState)
    /\ UNCHANGED <<selectedMonth, selectedCalendarDate>>
    /\ NavigationFrame

\* the previous-month button of the calendar header
previousMonthClick ==
    /\ PageRendered
    /\ lastOp' = "previousMonthClick"
    /\ LET month == IF selectedMonth = 0 THEN 11 ELSE selectedMonth - 1
       IN /\ selectedMonth' = month
          /\ currentWeekIndex' = 0
          /\ currentWeekData' =
                 WeekDataEffect(0, month, selectedYear,
                                isInitialized, isAuthenticated, isResetState)
    /\ UNCHANGED <<selectedYear, selectedCalendarDate>>
    /\ NavigationFrame

\* the next-month button of the calendar header
nextMonthClick ==
    /\ PageRendered
    /\ lastOp' = "nextMonthClick"
    /\ LET month == IF selectedMonth = 11 THEN 0 ELSE selectedMonth + 1
       IN /\ selectedMonth' = month
          /\ currentWeekIndex' = 0
          /\ currentWeekData' =
                 WeekDataEffect(0, month, selectedYear,
                                isInitialized, isAuthenticated, isResetState)
    /\ UNCHANGED <<selectedYear, selectedCalendarDate>>
    /\ NavigationFrame

\* the years offered by the year select of the calendar
YearOptions == { selectedYear - 5 + i : i \in 0..9 } \cap Years

\* ------------------------------------------------------------------------
\* GarageSetupPage: day types, the time-setting modal, the weekly pattern
\* ------------------------------------------------------------------------

\* page.tsx: the page's own startTime and endTime; no code sets them
startTime == HHMM("0", "9", "0", "0")

endTime == HHMM("1", "7", "0", "0")

\* what none of the handlers below touches
SessionFrame ==
    UNCHANGED <<tz, today, token, apiToken, isAuthenticated, checkingResetState,
                isInitialized, gtsVars, swpVars, completedLoads>>

\* a request on its way to the server
Request(api, date, type, start_time, end_time, slot_duration) ==
    [api |-> api, date |-> date, type |-> type, start_time |-> start_time,
     end_time |-> end_time, slot_duration |-> slot_duration]

\* fewer requests are in flight than the specification follows at a time
Room == Cardinality(inFlight) < MaxInFlight

\* the request is not in flight already
CanSend(request) == request \notin inFlight

\* { ...prev, [date]: value }
Put(map, date, value) ==
    [ k \in (DOMAIN map) \cup {date} |-> IF k = date THEN value ELSE map[k] ]

\* the character codes of the characters of a time string
CharCodes == [ c \in {DigitChars[i] : i \in 1..10} |-> 48 + DigitValue(c) ] @@
             (":" :> 58)

\* a < b of two strings
RECURSIVE StringLess(_, _)
StringLess(a, b) ==
    IF b = <<>> THEN FALSE
    ELSE IF a = <<>> THEN TRUE
    ELSE IF Head(a) = Head(b) THEN StringLess(Tail(a), Tail(b))
    ELSE CharCodes[Head(a)] < CharCodes[Head(b)]

\* TimeSettingModal: the effect that takes the modal's times from timeSlots;
\* it runs when isOpen or timeSlots changed
ModalTimes(newOpen, newTimeSlots) ==
    IF /\ <<newOpen, newTimeSlots>> # <<showTimeModal, timeSlots>>
       /\ newOpen
       /\ Len(newTimeSlots) > 0
    THEN [start |-> newTimeSlots[1].start,
          end |-> newTimeSlots[Len(newTimeSlots)].end]
    ELSE [start |-> modalStartTime, end |-> modalEndTime]

\* TimeSettingModal: the effect that regenerates the preview; it runs when
\* startTime, endTime or slotDuration changed
PreviewEffect(newStart, newEnd, newDuration) ==
    IF /\ <<newStart, newEnd, newDuration>> #
          <<modalStartTime, modalEndTime, slotDuration>>
       /\ newStart # NoTime /\ newEnd # NoTime /\ newDuration # 0
    THEN generateTimeSlots(newStart, newEnd, newDuration)
    ELSE previewSlots

\* TimeSettingModal: isValidTimeRange
isValidTimeRange ==
    StringLess(modalStartTime, modalEndTime) /\ Len(previewSlots) > 0

\* the request saveAvailabilityToAPI sends
SaveAvailabilityRequest(date, availability) ==
    IF availability.type = "holiday"
    THEN Request("setSpecialDay", date, "HOLIDAY", NoTime, NoTime, 0)
    ELSE LET firstSlot == IF Len(availability.timeSlots) > 0
                          THEN availability.timeSlots[1]
                          ELSE [start |-> NoTime, end |-> NoTime]
             start == IF availability.start_time # NoTime
                      THEN availability.start_time
                      ELSE IF firstSlot.start # NoTime THEN firstSlot.start
                      ELSE HHMM("1", "0", "0", "0")
             end == IF availability.end_time # NoTime
                    THEN availability.end_time
                    ELSE IF firstSlot.end # NoTime THEN firstSlot.end
                    ELSE HHMM("1", "8", "0", "0")
             duration == IF availability.slot_duration # 0
                         THEN availability.slot_duration ELSE 60
         IN Request("setSpecialDay", date, "OPEN", start, end, duration)

\* the availability handleDateClick writes for a weekend or a holiday
DayTypeAvailability(type) ==
    LET defaultStart == IF type = "weekend" THEN HHMM("1", "0", "0", "0") ELSE NoTime
        defaultEnd == IF type = "weekend" THEN HHMM("1", "6", "0", "0") ELSE NoTime
    IN [type |-> type,
        start_time |-> defaultStart,
        end_time |-> defaultEnd,
        slot_duration |-> IF type = "weekend" THEN 60 ELSE 0,
        timeSlots |-> IF defaultStart # NoTime /\ defaultEnd # NoTime
                      THEN << [start |-> defaultStart, end |-> defaultEnd] >>
                      ELSE <<>>,
        description |-> IF type = "holiday" THEN "Holiday" ELSE "Weekend hours"]

\* handleDateClick, with the request it starts (loadSlotsForDate or
\* saveAvailabilityToAPI) and the effects of the time-setting modal
handleDateClick(date, type) ==
    /\ PageRendered
    /\ lastOp' = "handleDateClick"
    /\ selectedDate' = date
    /\ selectedDayType' = type
    /\ timeSlots' = (IF date \in DOMAIN availabilityData
                     THEN availabilityData[date].timeSlots
                     ELSE << [start |-> HHMM("1", "0", "0", "0"),
                              end |-> HHMM("1", "8", "0", "0")] >>)
    /\ IF type = "working"
       THEN LET request == Request("getSlotsForDate", date, "", NoTime, NoTime, 0)
            IN /\ CanSend(request)
               /\ showTimeModal' = TRUE
               /\ selectedCalendarDate' = date
               /\ inFlight' = inFlight \cup {request}
               /\ UNCHANGED availabilityData
       ELSE LET newAvailability == DayTypeAvailability(type)
                request == SaveAvailabilityRequest(date, newAvailability)
            IN /\ CanSend(request)
               /\ availabilityData' = Put(availabilityData, date, newAvailability)
               /\ inFlight' = inFlight \cup {request}
               /\ selectedCalendarDate' = NoDate
               /\ UNCHANGED showTimeModal
    /\ loading' = TRUE
    /\ modalStartTime' = ModalTimes(showTimeModal', timeSlots').start
    /\ modalEndTime' = ModalTimes(showTimeModal', timeSlots').end
    /\ previewSlots' = PreviewEffect(modalStartTime', modalEndTime', slotDuration)
    /\ UNCHANGED <<isResetState, showWeeklyPatternModal, currentWeekIndex,
                   selectedMonth, selectedYear, currentWeekData, slotDuration,
                   daySlots, showSlotModal>>
    /\ SessionFrame

\* onClearSelection of the calendar
onClearSelection ==
    /\ PageRendered
    /\ selectedCalendarDate # NoDate
    /\ lastOp' = "onClearSelection"
    /\ selectedCalendarDate' = NoDate
    /\ UNCHANGED <<isResetState, showWeeklyPatternModal, currentWeekIndex,
                   selectedMonth, selectedYear, currentWeekData,
                   availabilityData, configVars>>
    /\ SessionFrame

\* what the inputs of the time-setting modal never touch
ModalInputFrame ==
    UNCHANGED <<isResetState, showWeeklyPatternModal, currentWeekIndex,
                selectedMonth, selectedYear, selectedCalendarDate,
                currentWeekData, availabilityData, showTimeModal, selectedDate,
                selectedDayType, timeSlots, loading, inFlight, daySlots,
                showSlotModal>>

\* TimeSettingModal: the start time input
setStartTime(value) ==
    /\ PageRendered /\ showTimeModal
    /\ lastOp' = "setStartTime"
    /\ modalStartTime' = value
    /\ previewSlots' = PreviewEffect(value, modalEndTime, slotDuration)
    /\ UNCHANGED <<modalEndTime, slotDuration>>
    /\ ModalInputFrame
    /\ SessionFrame

\* TimeSettingModal: the end time input
setEndTime(value) ==
    /\ PageRendered /\ showTimeModal
    /\ lastOp' = "setEndTime"
    /\ modalEndTime' = value
    /\ previewSlots' = PreviewEffect(modalStartTime, value, slotDuration)
    /\ UNCHANGED <<modalStartTime, slotDuration>>
    /\ ModalInputFrame
    /\ SessionFrame

\* TimeSettingModal: the duration select
setSlotDuration(value) ==
    /\ PageRendered /\ showTimeModal
    /\ lastOp' = "setSlotDuration"
    /\ slotDuration' = value
    /\ previewSlots' = PreviewEffect(modalStartTime, modalEndTime, value)
    /\ UNCHANGED <<modalStartTime, modalEndTime>>
    /\ ModalInputFrame
    /\ SessionFrame

\* TimeSettingModal: the close button and Cancel
closeTimeModal ==
    /\ PageRendered /\ showTimeModal
    /\ lastOp' = "closeTimeModal"
    /\ showTimeModal' = FALSE
    /\ UNCHANGED <<isResetState, showWeeklyPatternModal, currentWeekIndex,
                   selectedMonth, selectedYear, selectedCalendarDate,
                   currentWeekData, availabilityData, selectedDate,
                   selectedDayType, timeSlots, slotDuration, modalStartTime,
                   modalEndTime, previewSlots, loading, inFlight, daySlots,
                   showSlotModal>>
    /\ SessionFrame

\* handleSaveTime, the onSave of the time-setting modal, with the request
\* saveAvailabilityToAPI starts
handleSaveTime ==
    /\ PageRendered /\ showTimeModal
    /\ ~loading /\ isValidTimeRange
    /\ lastOp' = "handleSaveTime"
    /\ IF selectedDate # NoDate
       THEN LET generatedSlots == generateTimeSlots(startTime, endTime, slotDuration)
                newAvailability == [type |-> selectedDayType,
                                    timeSlots |-> generatedSlots,
                                    start_time |-> startTime,
                                    end_time |-> endTime,
                                    slot_duration |-> slotDuration]
                request == SaveAvailabilityRequest(selectedDate, newAvailability)
            IN /\ CanSend(request)
               /\ availabilityData' =
                      Put(availabilityData, selectedDate, newAvailability)
               /\ inFlight' = inFlight \cup {request}
               /\ loading' = TRUE
       ELSE UNCHANGED <<availabilityData, inFlight, loading>>
    /\ showTimeModal' = FALSE
    /\ selectedDate' = NoDate
    /\ selectedCalendarDate' = NoDate
    /\ UNCHANGED <<isResetState, showWeeklyPatternModal, currentWeekIndex,
                   selectedMonth, selectedYear, currentWeekData, selectedDayType,
                   timeSlots, slotDuration, modalStartTime, modalEndTime,
                   previewSlots, daySlots, showSlotModal>>
    /\ SessionFrame

\* the slots the server holds for a date, as getSlotsForDate returns them:
\* one slot on the first day of 2025 and none on any other day
ServerSlots(date) ==
    IF date = <<2025, 1, 1>>
    THEN << [id |-> "slot-2025-01-01", start_time |-> HHMM("1", "0", "0", "0"),
             end_time |-> HHMM("1", "1", "0", "0"), is_available |-> TRUE,
             is_blocked |-> FALSE] >>
    ELSE <<>>

\* loadSlotsForDate: response.data.map(...), the slots as the page keeps them
MapSlots(data) ==
    [ i \in 1..Len(data) |->
        [id |-> data[i].id, start |-> data[i].start_time, end |-> data[i].end_time,
         is_available |-> data[i].is_available, is_blocked |-> data[i].is_blocked] ]

\* the answer to a getSlotsForDate or setSpecialDay request: loadSlotsForDate
\* and saveAvailabilityToAPI after their await, with the finally block; a
\* successful getSlotsForDate stores the slots of the date it was sent for,
\* a failed one the empty list
requestDone(request) ==
    /\ request \in inFlight
    /\ request.api \in {"getSlotsForDate", "setSpecialDay"}
    /\ lastOp' = "requestDone"
    /\ inFlight' = inFlight \ {request}
    /\ \E success \in BOOLEAN :
          daySlots' = (IF request.api # "getSlotsForDate" THEN daySlots
                       ELSE IF success THEN MapSlots(ServerSlots(request.date))
                       ELSE <<>>)
    /\ loading' = FALSE
    /\ UNCHANGED <<isResetState, showWeeklyPatternModal, currentWeekIndex,
                   selectedMonth, selectedYear, selectedCalendarDate,
                   currentWeekData, availabilityData, showTimeModal, selectedDate,
                   selectedDayType, timeSlots, slotDuration, modalStartTime,
                   modalEndTime, previewSlots, showSlotModal>>
    /\ SessionFrame

\* what the weekly-pattern handlers never touch
PatternFrame ==
    UNCHANGED <<currentWeekIndex, selectedMonth, selectedYear,
                selectedCalendarDate, showTimeModal, selectedDate,
                selectedDayType, timeSlots, slotDuration, modalStartTime,
                modalEndTime, previewSlots, daySlots, showSlotModal>>

\* the Weekly Pattern button of the header, shown outside reset state
handleOpenWeeklyPatternModal ==
    /\ PageRendered /\ ~isResetState
    /\ lastOp' = "handleOpenWeeklyPatternModal"
    /\ showWeeklyPatternModal' = TRUE
    /\ UNCHANGED <<isResetState, currentWeekData, availabilityData, loading,
                   inFlight>>
    /\ PatternFrame
    /\ SessionFrame

\* WeeklyPatternSetupModal: onClose, of the close and Cancel buttons that are
\* shown outside reset state
closeWeeklyPatternModal ==
    /\ PageRendered /\ showWeeklyPatternModal /\ ~isResetState
    /\ lastOp' = "closeWeeklyPatternModal"
    /\ showWeeklyPatternModal' = FALSE
    /\ UNCHANGED <<isResetState, currentWeekData, availabilityData, loading,
                   inFlight>>
    /\ PatternFrame
    /\ SessionFrame

WeeklyPatternRequest == Request("setWeeklyPattern", NoDate, "", NoTime, NoTime, 0)

ResetScheduleRequest == Request("resetSchedule", NoDate, "", NoTime, NoTime, 0)

\* handleWeeklyPatternSave up to its await
handleWeeklyPatternSave ==
    /\ PageRendered /\ showWeeklyPatternModal
    /\ ~loading
    /\ CanSend(WeeklyPatternRequest)
    /\ lastOp' = "handleWeeklyPatternSave"
    /\ loading' = TRUE
    /\ inFlight' = inFlight \cup {WeeklyPatternRequest}
    /\ UNCHANGED <<isResetState, showWeeklyPatternModal, currentWeekData,
                   availabilityData>>
    /\ PatternFrame
    /\ SessionFrame

\* handleWeeklyPatternSave after its await: the response, the week-data
\* effect that a change of isResetState triggers, and the finally block
handleWeeklyPatternSaveDone(outcome) ==
    /\ WeeklyPatternRequest \in inFlight
    /\ lastOp' = "handleWeeklyPatternSaveDone"
    /\ inFlight' = inFlight \ {WeeklyPatternRequest}
    /\ IF outcome = "failed"
       THEN UNCHANGED <<isResetState, showWeeklyPatternModal>>
       ELSE /\ isResetState' = (outcome = "is_reset")
            /\ showWeeklyPatternModal' = FALSE
    /\ currentWeekData' =
           WeekDataEffect(currentWeekIndex, selectedMonth, selectedYear,
                          isInitialized, isAuthenticated, isResetState')
    /\ loading' = FALSE
    /\ UNCHANGED availabilityData
    /\ PatternFrame
    /\ SessionFrame

\* handleScheduleReset up to its await: Reset All of the confirmation that
\* the modal offers outside reset state
handleScheduleReset ==
    /\ PageRendered /\ showWeeklyPatternModal /\ ~isResetState
    /\ ~loading
    /\ CanSend(ResetScheduleRequest)
    /\ lastOp' = "handleScheduleReset"
    /\ loading' = TRUE
    /\ inFlight' = inFlight \cup {ResetScheduleRequest}
    /\ UNCHANGED <<isResetState, showWeeklyPatternModal, currentWeekData,
                   availabilityData>>
    /\ PatternFrame
    /\ SessionFrame

\* handleScheduleReset after its await
handleScheduleResetDone(outcome) ==
    /\ ResetScheduleRequest \in inFlight
    /\ lastOp' = "handleScheduleResetDone"
    /\ inFlight' = inFlight \ {ResetScheduleRequest}
    /\ IF outcome = "success"
       THEN /\ isResetState' = TRUE
            /\ availabilityData' = <<>>
            /\ currentWeekData' = <<>>
            /\ showWeeklyPatternModal' = TRUE
       ELSE UNCHANGED <<isResetState, availabilityData, currentWeekData,
                        showWeeklyPatternModal>>
    /\ loading' = FALSE
    /\ PatternFrame
    /\ SessionFrame

\* ------------------------------------------------------------------------
\* GarageSetupPage: schedule loads and slot management
\* ------------------------------------------------------------------------

\* null, for a day of the week response that has no schedule
Null == [type |-> "null"]

\* the days of the week from startDate as getWeekSchedule returns them: the
\* server holds one schedule, 2 January 2025 is closed
ServerWeekSchedule(startDate) ==
    IF DateLeq(startDate, <<2025, 1, 2>>) /\ DateLt(<<2025, 1, 2>>, AddDays(startDate, 7))
    THEN << [date |-> <<2025, 1, 1>>, schedule |-> Null],
            [date |-> <<2025, 1, 2>>,
             schedule |-> [type |-> "CLOSED", start_time |-> NoTime,
                           end_time |-> NoTime, slot_duration |-> 0]] >>
    ELSE <<>>

\* the events of a month (1-based) as getMonthSchedule returns them: the
\* server holds one event, 20 January 2025 is a holiday
ServerMonthSchedule(month, year) ==
    IF month = 1 /\ year = 2025
    THEN << [event_date |-> <<2025, 1, 20, "T", "00:00:00.000Z">>,
             type |-> "HOLIDAY", start_time |-> NoTime, end_time |-> NoTime,
             slot_duration |-> 0] >>
    ELSE <<>>

\* event_date.split("T")[0]
SplitT(event_date) == SubSeq(event_date, 1, 3)

\* the entry loadWeekSchedule writes for a day that has a schedule
WeekScheduleAvailability(schedule) ==
    [type |-> IF schedule.type = "HOLIDAY" THEN "holiday"
              ELSE IF schedule.type = "CLOSED" THEN "weekend"
              ELSE "working",
     start_time |-> schedule.start_time,
     end_time |-> schedule.end_time,
     slot_duration |-> schedule.slot_duration,
     timeSlots |-> IF schedule.start_time # NoTime /\ schedule.end_time # NoTime
                   THEN << [start |-> schedule.start_time, end |-> schedule.end_time] >>
                   ELSE <<>>]

\* the entry loadMonthSchedule writes for an event
MonthItemAvailability(monthItem) ==
    [type |-> IF monthItem.type = "HOLIDAY" THEN "holiday" ELSE "working",
     start_time |-> monthItem.start_time,
     end_time |-> monthItem.end_time,
     slot_duration |-> monthItem.slot_duration,
     timeSlots |-> IF monthItem.start_time # NoTime /\ monthItem.end_time # NoTime
                   THEN << [start |-> monthItem.start_time, end |-> monthItem.end_time] >>
                   ELSE <<>>]

\* loadWeekSchedule: response.data.forEach over the map it started from
RECURSIVE WeekScheduleInto(_, _)
WeekScheduleInto(newAvailabilityData, data) ==
    IF data = <<>> THEN newAvailabilityData
    ELSE WeekScheduleInto(
             IF Head(data).schedule # Null
             THEN Put(newAvailabilityData, Head(data).date,
                      WeekScheduleAvailability(Head(data).schedule))
             ELSE newAvailabilityData,
             Tail(data))

\* loadMonthSchedule: response.data.forEach over the map it started from
RECURSIVE MonthScheduleInto(_, _)
MonthScheduleInto(newAvailabilityData, data) ==
    IF data = <<>> THEN newAvailabilityData
    ELSE MonthScheduleInto(
             Put(newAvailabilityData, SplitT(Head(data).event_date),
                 MonthItemAvailability(Head(data))),
             Tail(data))

\* a call of loadWeekSchedule on its way: the function was created by a
\* render with this week, and with this availabilityData in its closure
WeekLoad(weekIndex, month, year, closure, effect) ==
    [api |-> "getWeekSchedule",
     startDate |-> getWeekStartDate(weekIndex, month, year),
     availabilityData |-> closure,
     effect |-> effect]

\* a call of loadMonthSchedule on its way
MonthLoad(month, year, closure, effect) ==
    [api |-> "getMonthSchedule",
     month |-> month + 1,
     year |-> year,
     availabilityData |-> closure,
     effect |-> effect]

ScheduleLoads == { request \in inFlight :
                     request.api \in {"getWeekSchedule", "getMonthSchedule"} }

\* the loads the initialisation effect starts, with the state of the render
\* it runs in: the week and month the page was constructed with
InitializationLoads(newChecking, newReset) ==
    IF ~isInitialized /\ isAuthenticated /\ ~newChecking /\ ~newReset
    THEN { WeekLoad(currentWeekIndex, selectedMonth, selectedYear,
                    availabilityData, "initialization"),
           MonthLoad(selectedMonth, selectedYear, availabilityData,
                     "initialization") }
    ELSE {}

\* the load the week-data effect starts when one of its dependencies changed
WeekEffectLoads(newIndex, newMonth, newYear, newInit, newAuth, newReset) ==
    IF /\ <<newIndex, newMonth, newYear, newInit, newAuth, newReset>> #
          <<currentWeekIndex, selectedMonth, selectedYear, isInitialized,
            isAuthenticated, isResetState>>
       /\ newInit /\ newAuth /\ ~newReset
    THEN { WeekLoad(newIndex, newMonth, newYear, availabilityData, "week") }
    ELSE {}

\* the load the month effect starts when one of its dependencies changed
MonthEffectLoads(newMonth, newYear, newInit, newAuth, newReset) ==
    IF /\ <<newMonth, newYear, newInit, newAuth, newReset>> #
          <<selectedMonth, selectedYear, isInitialized, isAuthenticated,
            isResetState>>
       /\ newInit /\ newAuth /\ ~newReset
    THEN { MonthLoad(newMonth, newYear, availabilityData, "month") }
    ELSE {}

\* the loads start: each sets loading and awaits its response; the history
\* starts afresh when no load was on its way
StartLoads(loads) ==
    /\ inFlight' = inFlight \cup loads
    /\ loading' = (IF loads = {} THEN loading ELSE TRUE)
    /\ completedLoads' = (IF loads # {} /\ ScheduleLoads = {} THEN {}
                          ELSE completedLoads)

\* what the navigation handlers leave alone when the loads are followed
LoadFrame ==
    UNCHANGED <<tz, today, token, isAuthenticated, checkingResetState,
                isResetState, showWeeklyPatternModal, isInitialized,
                availabilityData, apiToken, showTimeModal, selectedDate,
                selectedDayType, timeSlots, slotDuration, modalStartTime,
                modalEndTime, previewSlots, daySlots, showSlotModal,
                gtsVars, swpVars>>

\* checkResetState after its await, with the initialisation effect, the
\* week-data effect and the month effect, and the loads these start
checkResetStateDoneAndLoad(outcome) ==
    /\ checkingResetState
    /\ lastOp' = "checkResetState"
    /\ isResetState' = (outcome = "is_reset")
    /\ showWeeklyPatternModal' =
           (IF outcome = "is_reset" THEN TRUE ELSE showWeeklyPatternModal)
    /\ checkingResetState' = FALSE
    /\ IF ~isInitialized /\ isAuthenticated
       THEN /\ selectedMonth' = findCurrentWeek.month
            /\ selectedYear' = findCurrentWeek.year
            /\ currentWeekIndex' = findCurrentWeek.weekIndex
            /\ isInitialized' = TRUE
       ELSE UNCHANGED <<selectedMonth, selectedYear, currentWeekIndex, isInitialized>>
    /\ currentWeekData' =
           WeekDataEffect(currentWeekIndex', selectedMonth', selectedYear',
                          isInitialized', isAuthenticated, isResetState')
    /\ previewSlots' = generateTimeSlots(modalStartTime, modalEndTime, slotDuration)
    /\ StartLoads(InitializationLoads(FALSE, isResetState') \cup
                  WeekEffectLoads(currentWeekIndex', selectedMonth', selectedYear',
                                  isInitialized', isAuthenticated, isResetState') \cup
                  MonthEffectLoads(selectedMonth', selectedYear', isInitialized',
                                   isAuthenticated, isResetState'))
    /\ UNCHANGED <<tz, today, token, isAuthenticated, selectedCalendarDate,
                   availabilityData, apiToken, showTimeModal, selectedDate,
                   selectedDayType, timeSlots, slotDuration, modalStartTime,
                   modalEndTime, daySlots, showSlotModal, gtsVars, swpVars>>

\* handleDateSelect with the week-data effect, the month effect and the
\* loads these start
handleDateSelectAndLoad(dateStr) ==
    /\ PageRendered
    /\ lastOp' = "handleDateSelect"
    /\ selectedCalendarDate' = dateStr
    /\ LET targetDate == ParseDate(dateStr)
           targetMonth == GetMonth(targetDate)
           targetYear == GetFullYear(targetDate)
       IN /\ targetYear \in Years
          /\ IF targetMonth # selectedMonth \/ targetYear # selectedYear
             THEN /\ selectedMonth' = targetMonth
                  /\ selectedYear' = targetYear
                  /\ currentWeekIndex' =
                         getWeekIndexForDate(dateStr, targetMonth, targetYear)
             ELSE /\ currentWeekIndex' =
                         getWeekIndexForDate(dateStr, selectedMonth, selectedYear)
                  /\ UNCHANGED <<selectedMonth, selectedYear>>
    /\ currentWeekData' =
           WeekDataEffect(currentWeekIndex', selectedMonth', selectedYear',
                          isInitialized, isAuthenticated, isResetState)
    /\ StartLoads(WeekEffectLoads(currentWeekIndex', selectedMonth', selectedYear',
                                  isInitialized, isAuthenticated, isResetState) \cup
                  MonthEffectLoads(selectedMonth', selectedYear', isInitialized,
                                   isAuthenticated, isResetState))
    /\ LoadFrame

\* handleMonthChange with the week-data effect, the month effect and the
\* loads these start
handleMonthChangeAndLoad(month) ==
    /\ PageRendered
    /\ lastOp' = "handleMonthChange"
    /\ selectedMonth' = month
    /\ currentWeekIndex' = 0
    /\ currentWeekData' =
           WeekDataEffect(0, month, selectedYear,
                          isInitialized, isAuthenticated, isResetState)
    /\ StartLoads(WeekEffectLoads(0, month, selectedYear, isInitialized,
                                  isAuthenticated, isResetState) \cup
                  MonthEffectLoads(month, selectedYear, isInitialized,
                                   isAuthenticated, isResetState))
    /\ UNCHANGED <<selectedYear, selectedCalendarDate>>
    /\ LoadFrame

\* what the completion of a load leaves alone
LoadDoneFrame ==
    UNCHANGED <<tz, today, token, apiToken, isAuthenticated, checkingResetState,
                isInitialized, isResetState, showWeeklyPatternModal,
                currentWeekIndex, selectedMonth, selectedYear,
                selectedCalendarDate, currentWeekData, showTimeModal,
                selectedDate, selectedDayType, timeSlots, slotDuration,
                modalStartTime, modalEndTime, previewSlots, daySlots,
                showSlotModal, gtsVars, swpVars>>

\* loadWeekSchedule after its await: the days of the response are written
\* over the availabilityData of the closure, and the finally block
loadWeekScheduleDone(request, success) ==
    /\ request \in inFlight
    /\ request.api = "getWeekSchedule"
    /\ lastOp' = "loadWeekScheduleDone"
    /\ inFlight' = inFlight \ {request}
    /\ availabilityData' =
           (IF success
            THEN WeekScheduleInto(request.availabilityData,
                                  ServerWeekSchedule(request.startDate))
            ELSE availabilityData)
    /\ loading' = FALSE
    /\ completedLoads' = completedLoads \cup
                         { [request |-> request, success |-> success] }
    /\ LoadDoneFrame

\* loadMonthSchedule after its await
loadMonthScheduleDone(request, success) ==
    /\ request \in inFlight
    /\ request.api = "getMonthSchedule"
    /\ lastOp' = "loadMonthScheduleDone"
    /\ inFlight' = inFlight \ {request}
    /\ availabilityData' =
           (IF success
            THEN MonthScheduleInto(request.availabilityData,
                                   ServerMonthSchedule(request.month, request.year))
            ELSE availabilityData)
    /\ loading' = FALSE
    /\ completedLoads' = completedLoads \cup
                         { [request |-> request, success |-> success] }
    /\ LoadDoneFrame

\* the dates whose row of the week view shows the Manage button
ManageableDates ==
    { currentWeekData[i].date :
        i \in { j \in DOMAIN currentWeekData :
                  currentWeekData[j].availability.type = "working" } }

\* handleManageSlots, of the Manage button that loading disables, with the
\* request loadSlotsForDate starts
handleManageSlots(date) ==
    /\ PageRendered /\ ~loading
    /\ date \in ManageableDates
    /\ LET request == Request("getSlotsForDate", date, "", NoTime, NoTime, 0)
       IN /\ CanSend(request)
          /\ inFlight' = inFlight \cup {request}
    /\ lastOp' = "handleManageSlots"
    /\ selectedDate' = date
    /\ loading' = TRUE
    /\ showSlotModal' = TRUE
    /\ UNCHANGED <<isResetState, showWeeklyPatternModal, currentWeekIndex,
                   selectedMonth, selectedYear, selectedCalendarDate,
                   currentWeekData, availabilityData, showTimeModal,
                   selectedDayType, timeSlots, slotDuration, modalStartTime,
                   modalEndTime, previewSlots, daySlots>>
    /\ SessionFrame

\* SlotManagementModal: onClose
closeSlotModal ==
    /\ PageRendered /\ showSlotModal
    /\ lastOp' = "closeSlotModal"
    /\ showSlotModal' = FALSE
    /\ UNCHANGED <<isResetState, showWeeklyPatternModal, currentWeekIndex,
                   selectedMonth, selectedYear, selectedCalendarDate,
                   currentWeekData, availabilityData, showTimeModal, selectedDate,
                   selectedDayType, timeSlots, slotDuration, modalStartTime,
                   modalEndTime, previewSlots, loading, inFlight, daySlots>>
    /\ SessionFrame

\* ------------------------------------------------------------------------
\* GarageApiService: setWeeklyPattern
\* ------------------------------------------------------------------------

\* createWeeklyPattern cut or extended to n entries: day k is OPEN from 09:00
\* to 17:00 in 60-minute slots when k is in open, and CLOSED otherwise
PatternOf(n, open) ==
    [ i \in 1..n |->
        IF (i - 1) \in open
        THEN [day_of_week |-> i - 1, type |-> "OPEN",
              start_time |-> HHMM("0", "9", "0", "0"),
              end_time |-> HHMM("1", "7", "0", "0"), slot_duration |-> 60]
        ELSE [day_of_week |-> i - 1, type |-> "CLOSED"] ]

\* the patterns handed to setWeeklyPattern
PatternInputs == { PatternOf(n, open) : n \in PatternLengths, open \in OpenDaySets }

\* JSON.stringify of one WeeklyPatternDay: numbers become their decimal text,
\* members that are absent are left out
StringifyDay(day) ==
    IF day.type = "OPEN"
    THEN [day_of_week |-> NumberToString(day.day_of_week), type |-> day.type,
          start_time |-> day.start_time, end_time |-> day.end_time,
          slot_duration |-> NumberToString(day.slot_duration)]
    ELSE [day_of_week |-> NumberToString(day.day_of_week), type |-> day.type]

\* JSON.stringify(request) of a WeeklyPatternRequest
StringifyWeeklyPatternRequest(request) ==
    [pattern |-> [ i \in 1..Len(request.pattern) |-> StringifyDay(request.pattern[i]) ],
     daysToGenerate |-> NumberToString(request.daysToGenerate)]

\* the range check of setWeeklyPattern without its upper limit
DaysToGenerateOutOfRange_NoUpperLimit(daysToGenerate) == daysToGenerate < 1

\* daysToGenerate < 1 || daysToGenerate > 365
DaysToGenerateOutOfRange(daysToGenerate) ==
    daysToGenerate < 1 \/ daysToGenerate > 365

\* what the page's handlers never touch: the call of setWeeklyPattern that is
\* followed on its own
ApiIdle ==
    /\ swpPc = "idle"
    /\ swpPattern = <<>>
    /\ swpDaysToGenerate = 30
    /\ swpResult = Undefined
    /\ fetchLog = <<>>

\* setWeeklyPattern up to its return or to the await inside makeRequest
setWeeklyPattern ==
    /\ swpPc = "called"
    /\ IF Len(swpPattern) # 7
       THEN /\ swpResult' = [success |-> FALSE,
                             error |-> "Must provide exactly 7 days of pattern data"]
            /\ swpPc' = "returned"
            /\ UNCHANGED fetchLog
       ELSE IF DaysToGenerateOutOfRange(swpDaysToGenerate)
       THEN /\ swpResult' = [success |-> FALSE,
                             error |-> "daysToGenerate must be between 1 and 365"]
            /\ swpPc' = "returned"
            /\ UNCHANGED fetchLog
       ELSE LET request == [pattern |-> swpPattern,
                            daysToGenerate |-> swpDaysToGenerate]
            IN /\ fetchLog' = Append(fetchLog,
                                     [endpoint |-> "/schedule/weekly",
                                      method |-> "POST",
                                      authorization |-> apiToken,
                                      body |-> StringifyWeeklyPatternRequest(request)])
               /\ swpPc' = "fetching"
               /\ UNCHANGED swpResult
    /\ UNCHANGED <<swpPattern, swpDaysToGenerate, pageVars, gtsVars>>

\* makeRequest after its awaits: the response is ok, is not ok, or fetch threw
makeRequestDone(outcome) ==
    /\ swpPc = "fetching"
    /\ swpPc' = "returned"
    /\ swpResult' =
           (CASE outcome = "ok" -> [success |-> TRUE, data |-> [is_reset |-> FALSE]]
              [] outcome = "not_ok" -> [success |-> FALSE, error |-> "HTTP 400",
                                        statusCode |-> 400]
              [] OTHER -> [success |-> FALSE, error |-> "Network error"])
    /\ UNCHANGED <<swpPattern, swpDaysToGenerate, fetchLog, pageVars, gtsVars>>

\* ------------------------------------------------------------------------
\* Specifications
\* ------------------------------------------------------------------------

\* no call of generateTimeSlots is in progress
GtsIdle ==
    /\ gtsPc = "idle"
    /\ gtsStartTime = HHMM("0", "9", "0", "0")
    /\ gtsEndTime = HHMM("1", "7", "0", "0")
    /\ gtsSlotDuration = 60
    /\ currentMinutes = 0
    /\ slots = <<>>

\* the page after construction
PageInit ==
    /\ tz \in TzOffsets
    /\ today \in Todays
    /\ token = <<>>
    /\ apiToken = <<>>
    /\ isAuthenticated = FALSE
    /\ checkingResetState = FALSE
    /\ isResetState = FALSE
    /\ showWeeklyPatternModal = FALSE
    /\ isInitialized = FALSE
    /\ currentWeekIndex = 0
    /\ selectedMonth = today[2] - 1
    /\ selectedYear = today[1]
    /\ selectedCalendarDate = NoDate
    /\ currentWeekData = <<>>
    /\ availabilityData = <<>>
    /\ lastOp = "init"
    /\ showTimeModal = FALSE
    /\ selectedDate = NoDate
    /\ selectedDayType = "working"
    /\ timeSlots = << [start |-> HHMM("1", "0", "0", "0"),
                       end |-> HHMM("1", "8", "0", "0")] >>
    /\ slotDuration = 60
    /\ modalStartTime = HHMM("0", "9", "0", "0")
    /\ modalEndTime = HHMM("1", "7", "0", "0")
    /\ previewSlots = <<>>
    /\ loading = FALSE
    /\ inFlight = {}
    /\ daySlots = <<>>
    /\ showSlotModal = FALSE
    /\ completedLoads = {}

Init == PageInit /\ GtsIdle /\ ApiIdle

Next ==
    \/ \E value \in TokenInputs : setToken(value)
    \/ handleProceed
    \/ \E outcome \in {"is_reset", "not_reset", "failed"} : checkResetStateDone(outcome)
    \/ navigateToPreviousWeek
    \/ navigateToNextWeek
    \/ \E dateStr \in SelectableDates \cap ClickDates : handleDateSelect(dateStr)
    \/ \E month \in 0..11 : handleMonthChange(month)
    \/ previousMonthClick
    \/ nextMonthClick
    \/ \E year \in YearOptions : handleYearChange(year)

Spec == Init /\ [][Next]_vars

\* generateTimeSlots alone: the arguments are drawn from the input sets
InitSlots ==
    /\ PageInit
    /\ tz = 0
    /\ today = <<2026, 2, 1>>
    /\ gtsPc = "called"
    /\ gtsStartTime \in TimeInputs
    /\ gtsEndTime \in TimeInputs
    /\ gtsSlotDuration \in DurationInputs
    /\ currentMinutes = 0
    /\ slots = <<>>
    /\ ApiIdle

NextSlots == gtsEnter \/ gtsIterate \/ gtsReturn

SpecSlots == InitSlots /\ [][NextSlots]_vars

\* the page with the clock fixed: the calendar stays on the month of the
\* clock or next to it
InitConfig ==
    /\ PageInit
    /\ today = <<2025, 1, 1>>
    /\ GtsIdle
    /\ ApiIdle

\* the user sets day types and working hours; while the time-setting modal
\* covers the page, only the modal is operated
NextDay ==
    \/ \E value \in TokenInputs : setToken(value)
    \/ handleProceed
    \/ \E outcome \in {"is_reset", "not_reset", "failed"} : checkResetStateDone(outcome)
    \/ \E dateStr \in SelectableDates \cap ConfigDates :
          ~showTimeModal /\ handleDateSelect(dateStr)
    \/ \E type \in DayTypes :
          /\ ~showTimeModal
          /\ selectedCalendarDate \in DayTypeDates
          /\ Room
          /\ handleDateClick(selectedCalendarDate, type)
    \/ ~showTimeModal /\ onClearSelection
    \/ \E value \in StartTimeEdits : setStartTime(value)
    \/ \E value \in EndTimeEdits : setEndTime(value)
    \/ \E value \in SlotDurationOptions : setSlotDuration(value)
    \/ closeTimeModal
    \/ Room /\ handleSaveTime
    \/ \E request \in inFlight : requestDone(request)

SpecDay == InitConfig /\ [][NextDay]_vars

\* the user opens, saves and resets the weekly pattern and selects dates
NextPattern ==
    \/ \E value \in TokenInputs : setToken(value)
    \/ handleProceed
    \/ \E outcome \in {"is_reset", "not_reset", "failed"} : checkResetStateDone(outcome)
    \/ \E dateStr \in SelectableDates \cap ConfigDates : handleDateSelect(dateStr)
    \/ handleOpenWeeklyPatternModal
    \/ closeWeeklyPatternModal
    \/ Room /\ handleWeeklyPatternSave
    \/ \E outcome \in {"is_reset", "not_reset", "failed"} :
          handleWeeklyPatternSaveDone(outcome)
    \/ Room /\ handleScheduleReset
    \/ \E outcome \in {"success", "failed"} : handleScheduleResetDone(outcome)

SpecPattern == InitConfig /\ [][NextPattern]_vars

\* the page with the schedule loads and the slot requests followed to their
\* answers, on a host at UTC; a modal that is open covers the page, the user
\* navigates when the loads of the step before are answered, and presses a
\* button that sends a request when fewer than MaxPending are in flight;
\* working hours are set on both dates, a holiday on the later one
InitLoad ==
    /\ InitConfig
    /\ tz = 0

NoModal == ~showTimeModal /\ ~showSlotModal /\ ~showWeeklyPatternModal

Pending == Cardinality(inFlight) < MaxPending

Settled == ScheduleLoads = {}

NextLoad ==
    \/ \E value \in TokenInputs : setToken(value)
    \/ handleProceed
    \/ \E outcome \in {"is_reset", "not_reset", "failed"} :
          checkResetStateDoneAndLoad(outcome)
    \/ \E dateStr \in SelectableDates \cap ConfigDates :
          NoModal /\ Settled /\ handleDateSelectAndLoad(dateStr)
    \/ \E month \in LoadMonths :
          NoModal /\ Settled /\ handleMonthChangeAndLoad(month)
    \/ /\ NoModal /\ Pending
       /\ selectedCalendarDate \in ConfigDates
       /\ handleDateClick(selectedCalendarDate, "working")
    \/ /\ NoModal /\ Pending
       /\ selectedCalendarDate \in DayTypeDates
       /\ handleDateClick(selectedCalendarDate, "holiday")
    \/ closeTimeModal
    \/ \E date \in ConfigDates : NoModal /\ Pending /\ handleManageSlots(date)
    \/ closeSlotModal
    \/ \E request \in inFlight : requestDone(request)
    \/ \E request \in inFlight, success \in BOOLEAN :
          loadWeekScheduleDone(request, success)
    \/ \E request \in inFlight, success \in BOOLEAN :
          loadMonthScheduleDone(request, success)

SpecLoad == InitLoad /\ [][NextLoad]_vars

\* setWeeklyPattern alone: the arguments are drawn from the input sets
InitApi ==
    /\ PageInit
    /\ tz = 0
    /\ today = <<2025, 1, 1>>
    /\ GtsIdle
    /\ swpPc = "called"
    /\ swpPattern \in PatternInputs
    /\ swpDaysToGenerate \in DaysToGenerateInputs
    /\ swpResult = Undefined
    /\ fetchLog = <<>>

NextApi ==
    \/ setWeeklyPattern
    \/ \E outcome \in {"ok", "not_ok", "network_error"} : makeRequestDone(outcome)

SpecApi == InitApi /\ [][NextApi]_vars

\* ------------------------------------------------------------------------
\* Properties: week boundaries and the calendar grid
\* ------------------------------------------------------------------------

\* the grid the calendar shows in the current state
DisplayedGrid == generateCalendarDays(selectedMonth, selectedYear, availabilityData)

\* day of week of the 1st of the displayed month, by calendar arithmetic
FirstWeekdayOfMonth(m, y) == WeekdayOfDay(DayNumber(y, m, 1))

\* C1: every date d of the displayed month lies in the week its index names:
\* getWeekStartDate(w) <= d < getWeekStartDate(w + 1) for
\* w = getWeekIndexForDate(d), Sundays included.
C1_DateWithinItsWeek ==
    \A d \in DatesOfMonth(selectedMonth, selectedYear) :
        LET w == getWeekIndexForDate(d, selectedMonth, selectedYear)
        IN /\ DateLeq(getWeekStartDate(w, selectedMonth, selectedYear), d)
           /\ DateLt(d, getWeekStartDate(w + 1, selectedMonth, selectedYear))

\* C2: for every date d of the displayed month, getWeekIndexForDate(d) is
\* the weekIndex that the calendar grid assigns to the cell carrying d.
C2_WeekIndexAgreesWithGrid ==
    \A d \in DatesOfMonth(selectedMonth, selectedYear) :
        \A k \in 1..Len(DisplayedGrid) :
            DisplayedGrid[k].date = d =>
                getWeekIndexForDate(d, selectedMonth, selectedYear) =
                    DisplayedGrid[k].weekIndex

\* C3: the calendar grid has exactly 42 cells for every month and year.
C3_GridHas42Cells == Len(DisplayedGrid) = 42

\* C4: going back from week 0 shows the 7 dates that immediately precede
\* the start of the week left: the new week starts exactly 7 days earlier.
C4_PreviousWeekIsContiguous ==
    [][ (lastOp' = "navigateToPreviousWeek" /\ currentWeekIndex = 0) =>
          LET left == getWeekStartDate(0, selectedMonth, selectedYear)
              shown == generateWeekData(currentWeekIndex', selectedMonth',
                                        selectedYear', availabilityData')
          IN \A i \in 1..7 : shown[i].date = AddDays(left, i - 8) ]_vars

\* C5: navigateToPreviousWeek from week 0 lands on the previous month
\* (December of the year before when the month is January) at index
\* getTotalWeeksInMonth - 1 of that month; from a later week it only
\* decrements the index and keeps month and year.
C5_PreviousWeekTarget ==
    [][ lastOp' = "navigateToPreviousWeek" =>
          IF currentWeekIndex = 0
          THEN /\ selectedMonth' = (IF selectedMonth = 0 THEN 11 ELSE selectedMonth - 1)
               /\ selectedYear' = (IF selectedMonth = 0 THEN selectedYear - 1
                                                        ELSE selectedYear)
               /\ currentWeekIndex' =
                      getTotalWeeksInMonth(selectedMonth', selectedYear') - 1
          ELSE /\ currentWeekIndex > 0
               /\ currentWeekIndex' = currentWeekIndex - 1
               /\ selectedMonth' = selectedMonth
               /\ selectedYear' = selectedYear ]_vars

\* the step from week 0 of January 2025 has been taken
C5_Witness ==
    /\ lastOp = "navigateToPreviousWeek"
    /\ selectedMonth = 11
    /\ selectedYear = 2024
    /\ currentWeekIndex = 4

\* C6, as claimed: getTotalWeeksInMonth is 5 or 6 for every month.
C6_TotalWeeksFiveOrSix ==
    getTotalWeeksInMonth(selectedMonth, selectedYear) \in {5, 6}

\* C6, amended: getTotalWeeksInMonth is 4, 5 or 6; it is 4 exactly for a
\* 28-day February whose 1st is a Sunday.
C6_TotalWeeksFourToSix ==
    LET total == getTotalWeeksInMonth(selectedMonth, selectedYear)
    IN /\ total \in {4, 5, 6}
       /\ total = 4 <=> /\ selectedMonth = 1
                        /\ ~IsLeap(selectedYear)
                        /\ FirstWeekdayOfMonth(selectedMonth, selectedYear) = 0

\* the last week of February 2026 was reached by going back from March
C6_Witness ==
    /\ lastOp = "navigateToPreviousWeek"
    /\ selectedMonth = 1
    /\ selectedYear = 2026
    /\ currentWeekIndex = 3
    /\ getTotalWeeksInMonth(selectedMonth, selectedYear) = 4

IsHHMM(s) ==
    /\ Len(s) = 5
    /\ s[3] = ":"
    /\ \A i \in {1, 2, 4, 5} : \E k \in 1..10 : DigitChars[k] = s[i]
    /\ 10 * DigitValue(s[1]) + DigitValue(s[2]) <= 23
    /\ 10 * DigitValue(s[4]) + DigitValue(s[5]) <= 59

\* minutes since midnight of an HH:MM string, read digit by digit
ClockMinutes(s) ==
    600 * DigitValue(s[1]) + 60 * DigitValue(s[2]) +
    10 * DigitValue(s[4]) + DigitValue(s[5])

\* C8: for a positive duration every returned slot is a zero-padded HH:MM
\* pair exactly one duration long that ends no later than endTime; the first
\* starts at startTime and each next one starts where the previous one ends.
C8_SlotsExactAndContiguous ==
    (gtsPc = "done" /\ gtsSlotDuration > 0) =>
        /\ \A i \in 1..Len(slots) :
              /\ IsHHMM(slots[i].start)
              /\ IsHHMM(slots[i].end)
              /\ ClockMinutes(slots[i].end) - ClockMinutes(slots[i].start) =
                     gtsSlotDuration
              /\ ClockMinutes(slots[i].end) <= ClockMinutes(gtsEndTime)
        /\ (Len(slots) > 0 => slots[1].start = gtsStartTime)
        /\ \A i \in 1..(Len(slots) - 1) :
              /\ slots[i + 1].start = slots[i].end
              /\ ClockMinutes(slots[i].start) < ClockMinutes(slots[i + 1].start)

\* the call (00:00, 23:59, 45) has returned its 31 slots
C8_Witness ==
    /\ gtsPc = "done"
    /\ gtsStartTime = HHMM("0", "0", "0", "0")
    /\ gtsEndTime = HHMM("2", "3", "5", "9")
    /\ gtsSlotDuration = 45
    /\ Len(slots) = 31

\* C9: for a positive duration D the result has max(0, floor((E - S) / D))
\* slots, none when S >= E; (09:00, 17:00, 60) gives the 8 slots 09:00-10:00
\* to 16:00-17:00, (09:00, 09:45, 30) the one slot 09:00-09:30, and
\* (17:00, 09:00, 60) none.
C9_SlotCount ==
    (gtsPc = "done" /\ gtsSlotDuration > 0) =>
        LET S == ClockMinutes(gtsStartTime)
            E == ClockMinutes(gtsEndTime)
            nine == HHMM("0", "9", "0", "0")
            seventeen == HHMM("1", "7", "0", "0")
        IN /\ Len(slots) = Max(0, FloorDiv(E - S, gtsSlotDuration))
           /\ (S >= E => slots = <<>>)
           /\ (gtsStartTime = nine /\ gtsEndTime = seventeen /\ gtsSlotDuration = 60) =>
                 /\ Len(slots) = 8
                 /\ slots[1] = [start |-> nine, end |-> HHMM("1", "0", "0", "0")]
                 /\ slots[8] = [start |-> HHMM("1", "6", "0", "0"), end |-> seventeen]
           /\ (gtsStartTime = nine /\ gtsEndTime = HHMM("0", "9", "4", "5")
                  /\ gtsSlotDuration = 30) =>
                 slots = << [start |-> nine, end |-> HHMM("0", "9", "3", "0")] >>
           /\ (gtsStartTime = seventeen /\ gtsEndTime = nine /\ gtsSlotDuration = 60) =>
                 slots = <<>>

\* the call (09:00, 09:45, 30) has returned one slot, without a partial one
C9_Witness ==
    /\ gtsPc = "done"
    /\ gtsStartTime = HHMM("0", "9", "0", "0")
    /\ gtsEndTime = HHMM("0", "9", "4", "5")
    /\ gtsSlotDuration = 30
    /\ Len(slots) = 1

\* C10: a call with a zero or negative duration is rejected with
\* InvalidArgument and produces no slots.
C10_NonPositiveDurationRejected ==
    (gtsSlotDuration <= 0 /\ gtsPc # "called") =>
        (gtsPc = "InvalidArgument" /\ slots = <<>>)

\* C11: generateTimeSlots terminates for every well-formed start and end
\* time and every duration >= 0, duration 0 with startTime <= endTime
\* included: each iteration of its loop moves currentMinutes strictly
\* towards endMinutes, so the loop cannot run without bound.
C11_LoopAdvances ==
    [][ (gtsPc = "loop" /\ IsHHMM(gtsStartTime) /\ IsHHMM(gtsEndTime)
           /\ gtsSlotDuration >= 0 /\ slots' # slots) =>
          /\ currentMinutes' > currentMinutes
          /\ ClockMinutes(gtsEndTime) - currentMinutes' <
                 ClockMinutes(gtsEndTime) - currentMinutes ]_vars

\* ------------------------------------------------------------------------
\* Properties: the week data and the calendar grid
\* ------------------------------------------------------------------------

\* the Sunday of week w of a month by calendar arithmetic alone: the 1st of
\* the month, minus its day of week, plus 7 * w days
CivilWeekStart(w, m, y) == AddDays(<<y, m + 1, 1>>, 7 * w - FirstWeekdayOfMonth(m, y))

\* day of week (0 = Sunday) of a YYYY-MM-DD string
WeekdayOfDate(s) == WeekdayOfDay(DayNumber(s[1], s[2] - 1, s[3]))

\* C12: generateWeekData returns exactly 7 entries for every weekIndex,
\* negative, zero or large: entry 0 carries the date getWeekStartDate gives
\* for the same arguments, entry i that date plus i days, and entry i is
\* labelled with weekday name i, which is the day of week of its date.
C12_WeekDataSevenDaysFromWeekStart ==
    \A w \in WeekIndexInputs :
        LET weekData == generateWeekData(w, selectedMonth, selectedYear,
                                         availabilityData)
            weekStart == getWeekStartDate(w, selectedMonth, selectedYear)
        IN /\ DOMAIN weekData = 1..7
           /\ weekData[1].date = weekStart
           /\ \A i \in 0..6 :
                 /\ weekData[i + 1].date = AddDays(weekStart, i)
                 /\ weekData[i + 1].day = dayNames[i + 1]
                 /\ dayNames[WeekdayOfDate(weekData[i + 1].date) + 1] =
                        weekData[i + 1].day

\* C13: the date strings do not depend on the UTC offset of the host: for
\* every offset getWeekStartDate(w), generateWeekData(w)[0].date and the
\* grid cell of that day are one and the same civil date, and the key with
\* which the availability of a day is looked up is that day's local date.
C13_DatesIndependentOfOffset ==
    \A w \in WeekIndexInputs :
        LET civil == CivilWeekStart(w, selectedMonth, selectedYear)
            weekData == generateWeekData(w, selectedMonth, selectedYear,
                                         availabilityData)
        IN /\ getWeekStartDate(w, selectedMonth, selectedYear) = civil
           /\ weekData[1].date = civil
           /\ (0 <= w /\ 7 * w < Len(DisplayedGrid)) =>
                 DisplayedGrid[7 * w + 1].date = civil
           /\ \A i \in 0..6 :
                 /\ weekData[i + 1].date = AddDays(civil, i)
                 /\ weekData[i + 1].availability =
                        (IF AddDays(civil, i) \in DOMAIN availabilityData
                         THEN availabilityData[AddDays(civil, i)]
                         ELSE FallbackAvailability)

\* C14: for every row w of the calendar grid of a month, the 7 dates of
\* generateWeekData(w) are the 7 dates of row w of the grid, in order.
C14_WeekDataIsGridRow ==
    \A w \in 0..(Len(CalendarWeeks(DisplayedGrid)) - 1) :
        LET weekData == generateWeekData(w, selectedMonth, selectedYear,
                                         availabilityData)
            row == CalendarWeeks(DisplayedGrid)[w + 1]
        IN /\ Len(row) = 7
           /\ \A i \in 1..7 : weekData[i].date = row[i].date

\* the week shown after stepping to the sixth row of a month, east of
\* Greenwich, is the sixth row of the grid
C14_Witness ==
    /\ lastOp = "navigateToNextWeek"
    /\ tz = 6
    /\ currentWeekIndex = 5
    /\ Len(DisplayedGrid) = 42
    /\ DOMAIN currentWeekData = 1..7
    /\ \A i \in 1..7 : currentWeekData[i].date = DisplayedGrid[35 + i].date

\* C15: for every month, year and integer weekIndex getWeekStartDate is a
\* Sunday, the 1st of the month minus its day of week plus 7 * weekIndex
\* days; week 0 contains the 1st; consecutive indices start 7 days apart,
\* across month and year boundaries too.
C15_WeekStartIsSunday ==
    \A w \in WeekIndexInputs :
        LET weekStart == getWeekStartDate(w, selectedMonth, selectedYear)
            first == <<selectedYear, selectedMonth + 1, 1>>
            week0 == getWeekStartDate(0, selectedMonth, selectedYear)
        IN /\ WeekdayOfDate(weekStart) = 0
           /\ weekStart = CivilWeekStart(w, selectedMonth, selectedYear)
           /\ DateLeq(week0, first) /\ DateLt(first, AddDays(week0, 7))
           /\ getWeekStartDate(w + 1, selectedMonth, selectedYear) =
                  AddDays(weekStart, 7)

\* January 2025 is displayed west of Greenwich after a step back from
\* February: the week before its week 0 starts in the year before
C15_Witness ==
    /\ lastOp = "navigateToPreviousWeek"
    /\ tz = -5
    /\ selectedMonth = 0
    /\ selectedYear = 2025
    /\ getWeekStartDate(0, selectedMonth, selectedYear) = <<2024, 12, 29>>
    /\ getWeekStartDate(-1, selectedMonth, selectedYear) = <<2024, 12, 22>>
    /\ getWeekStartDate(1, selectedMonth, selectedYear) = <<2025, 1, 5>>

\* C16: every cell of the calendar grid, leading cells of the previous
\* month, Sundays of the month and trailing cells included, carries
\* weekIndex = floor(cellOffset / 7), and no cell a negative weekIndex.
C16_CellWeekIndexIsRow ==
    \A k \in 1..Len(DisplayedGrid) :
        /\ DisplayedGrid[k].weekIndex = FloorDiv(k - 1, 7)
        /\ DisplayedGrid[k].weekIndex >= 0

\* ------------------------------------------------------------------------
\* Properties: the month buttons of the calendar
\* ------------------------------------------------------------------------

\* C18: the previous-month and next-month buttons of the calendar move to
\* the adjacent calendar month and change the year on their own: back from
\* January is December of the year before, forward from December is January
\* of the year after, so repeated steps visit consecutive months.
C18_MonthButtonsCrossYears ==
    [][ /\ lastOp' = "previousMonthClick" =>
             /\ selectedMonth' = (IF selectedMonth = 0 THEN 11 ELSE selectedMonth - 1)
             /\ 12 * selectedYear' + selectedMonth' =
                    12 * selectedYear + selectedMonth - 1
        /\ lastOp' = "nextMonthClick" =>
             /\ selectedMonth' = (IF selectedMonth = 11 THEN 0 ELSE selectedMonth + 1)
             /\ 12 * selectedYear' + selectedMonth' =
                    12 * selectedYear + selectedMonth + 1 ]_vars

\* ------------------------------------------------------------------------
\* Properties: availability, the weekly-pattern modal, the time-setting modal
\* ------------------------------------------------------------------------

\* the availability a day has in a week built over the map
AvailabilityOfDate(map, date) ==
    IF date \in DOMAIN map
    THEN map[date]
    ELSE [type |-> "working",
          timeSlots |-> << [start |-> HHMM("1", "0", "0", "0"),
                            end |-> HHMM("1", "8", "0", "0")] >>,
          start_time |-> HHMM("1", "0", "0", "0"),
          end_time |-> HHMM("1", "8", "0", "0"),
          slot_duration |-> 60]

\* C17: each of the 7 days generateWeekData returns has the map's entry for
\* its date as availability when there is one, and otherwise the working-day
\* template (working, 10:00 to 18:00, 60-minute slots); no day is without
\* availability, and building the week leaves the map as it was.  This is
\* stated of every week the page builds and, for every map the page comes to
\* hold, of the weeks of WeekIndexInputs.
C17_WeekDataAvailability ==
    [][ /\ (currentWeekData' # currentWeekData /\ currentWeekData' # <<>>) =>
              /\ availabilityData' = availabilityData
              /\ DOMAIN currentWeekData' = 1..7
              /\ \A i \in 1..7 :
                    /\ currentWeekData'[i].availability # Undefined
                    /\ currentWeekData'[i].availability =
                           AvailabilityOfDate(availabilityData,
                                              currentWeekData'[i].date)
        /\ availabilityData' # availabilityData =>
              \A w \in WeekIndexInputs :
                  LET weekData == generateWeekData(w, selectedMonth', selectedYear',
                                                   availabilityData')
                  IN \A i \in 1..7 :
                        /\ weekData[i].availability # Undefined
                        /\ weekData[i].availability =
                               AvailabilityOfDate(availabilityData',
                                                  weekData[i].date) ]_vars

\* the week of 8 January 2025 is shown again after that day was made a
\* holiday: its entry carries the holiday, its neighbours the template
C17_Witness ==
    /\ lastOp = "handleDateSelect"
    /\ <<2025, 1, 8>> \in DOMAIN availabilityData
    /\ availabilityData[<<2025, 1, 8>>].type = "holiday"
    /\ DOMAIN currentWeekData = 1..7
    /\ \E i \in 1..7 :
          /\ currentWeekData[i].date = <<2025, 1, 8>>
          /\ currentWeekData[i].availability = availabilityData[<<2025, 1, 8>>]
    /\ \E i \in 1..7 : currentWeekData[i].availability = FallbackAvailability

\* C19: whenever the user is authenticated, the reset-state check is over
\* and isResetState is true, the weekly-pattern modal is shown, also after a
\* weekly-pattern save whose response still reports is_reset = true.
C19_ResetStateShowsModal ==
    (isAuthenticated /\ ~checkingResetState /\ isResetState) =>
        showWeeklyPatternModal

\* C20: a save of working hours in the time-setting modal stores for the
\* selected date, and sends to the API, the start time, end time and
\* duration the modal shows, with the slots it previews as timeSlots.
C20_SaveTimeStoresModalValues ==
    [][ (lastOp' = "handleSaveTime" /\ selectedDate # NoDate) =>
          /\ selectedDate \in DOMAIN availabilityData'
          /\ LET saved == availabilityData'[selectedDate]
             IN /\ saved.start_time = modalStartTime
                /\ saved.end_time = modalEndTime
                /\ saved.slot_duration = slotDuration
                /\ saved.timeSlots = previewSlots
          /\ \E request \in inFlight' \ inFlight :
                /\ request.api = "setSpecialDay"
                /\ request.date = selectedDate
                /\ request.start_time = modalStartTime
                /\ request.end_time = modalEndTime
                /\ request.slot_duration = slotDuration ]_vars

\* ------------------------------------------------------------------------
\* Properties: date selection, the authentication gate, the week index
\* ------------------------------------------------------------------------

\* C22: after handleDateSelect(d) for a date d of the displayed month,
\* selectedMonth and selectedYear are the month and year of d, and the week
\* that currentWeekIndex names contains d: the week generateWeekData builds
\* for the new state and the calendar row of that index.
C22_SelectedDateInShownWeek ==
    [][ lastOp' = "handleDateSelect" =>
          LET d == selectedCalendarDate'
              weekData == generateWeekData(currentWeekIndex', selectedMonth',
                                           selectedYear', availabilityData')
              rows == CalendarWeeks(generateCalendarDays(selectedMonth', selectedYear',
                                                         availabilityData'))
          IN /\ selectedMonth' = d[2] - 1
             /\ selectedYear' = d[1]
             /\ \E i \in 1..7 : weekData[i].date = d
             /\ currentWeekIndex' + 1 \in 1..Len(rows)
             /\ \E i \in 1..Len(rows[currentWeekIndex' + 1]) :
                   rows[currentWeekIndex' + 1][i].date = d ]_vars

\* the state of the program: every variable but the record of the last handler
programVars ==
    <<tz, today, token, isAuthenticated, checkingResetState, isResetState,
      showWeeklyPatternModal, isInitialized, currentWeekIndex, selectedMonth,
      selectedYear, selectedCalendarDate, currentWeekData, availabilityData,
      apiToken, configVars, completedLoads, gtsVars, swpVars>>

\* C23: isAuthenticated becomes true only through handleProceed with a token
\* that is non-empty after trimming; every request the page issues (the
\* reset-state check, a schedule load, a save, a slot request) is issued
\* in a state where isAuthenticated is true and the service holds that
\* non-empty trimmed token; handleProceed with a blank token leaves all
\* state unchanged.
C23_AuthenticationGate ==
    [][ /\ (~isAuthenticated /\ isAuthenticated') =>
               /\ lastOp' = "handleProceed"
               /\ Trim(token) # <<>>
        /\ (inFlight' \ inFlight # {} \/ (~checkingResetState /\ checkingResetState')) =>
               /\ isAuthenticated'
               /\ apiToken' = Trim(token')
               /\ apiToken' # <<>>
        /\ (lastOp' = "handleProceed" /\ Trim(token) = <<>>) =>
               UNCHANGED programVars ]_vars

\* the token " tk " has been accepted and trimmed, and a request that the
\* page issued after it is on its way
C23_Witness ==
    /\ isAuthenticated
    /\ token = <<" ", "t", "k", " ">>
    /\ apiToken = <<"t", "k">>
    /\ inFlight # {}

\* C24: in every state reachable through initialization, the week buttons,
\* handleDateSelect on a date of the displayed month, handleMonthChange and
\* handleYearChange, 0 <= currentWeekIndex <
\* getTotalWeeksInMonth(selectedMonth, selectedYear), and selectedMonth is in
\* 0..11.
C24_WeekIndexInRange ==
    /\ selectedMonth \in 0..11
    /\ 0 <= currentWeekIndex
    /\ currentWeekIndex < getTotalWeeksInMonth(selectedMonth, selectedYear)

\* ------------------------------------------------------------------------
\* Properties: the contract of setWeeklyPattern
\* ------------------------------------------------------------------------

\* a stringified pattern day read back
ParseDay(text) ==
    IF text.type = "OPEN"
    THEN [day_of_week |-> StringToNumber(text.day_of_week), type |-> text.type,
          start_time |-> text.start_time, end_time |-> text.end_time,
          slot_duration |-> StringToNumber(text.slot_duration)]
    ELSE [day_of_week |-> StringToNumber(text.day_of_week), type |-> text.type]

\* C21: setWeeklyPattern returns a failure value (success = false with an
\* error message) and issues no HTTP request when the pattern does not have
\* exactly 7 entries or daysToGenerate is outside 1..365; otherwise it issues
\* exactly one POST whose body carries the pattern and daysToGenerate
\* unchanged.
C21_SetWeeklyPatternContract ==
    swpPc \in {"fetching", "returned"} =>
        IF Len(swpPattern) # 7 \/ swpDaysToGenerate \notin 1..365
        THEN /\ swpPc = "returned"
             /\ swpResult.success = FALSE
             /\ "error" \in DOMAIN swpResult
             /\ fetchLog = <<>>
        ELSE /\ Len(fetchLog) = 1
             /\ fetchLog[1].method = "POST"
             /\ StringToNumber(fetchLog[1].body.daysToGenerate) = swpDaysToGenerate
             /\ Len(fetchLog[1].body.pattern) = Len(swpPattern)
             /\ \A i \in 1..Len(swpPattern) :
                   ParseDay(fetchLog[1].body.pattern[i]) = swpPattern[i]

\* a pattern of seven days with daysToGenerate just above the limit has been
\* refused without a request
C21_Witness ==
    /\ swpPc = "returned"
    /\ Len(swpPattern) = 7
    /\ swpDaysToGenerate = 366
    /\ swpResult # Undefined
    /\ swpResult.success = FALSE
    /\ fetchLog = <<>>

\* ------------------------------------------------------------------------
\* Properties: overlapping requests
\* ------------------------------------------------------------------------

\* the entries a successful load delivers
DeliveredBy(request) ==
    IF request.api = "getWeekSchedule"
    THEN WeekScheduleInto(<<>>, ServerWeekSchedule(request.startDate))
    ELSE MonthScheduleInto(<<>>, ServerMonthSchedule(request.month, request.year))

\* every entry of the map entries is in the map data
ContainsEntries(data, entries) ==
    \A date \in DOMAIN entries :
        date \in DOMAIN data /\ data[date] = entries[date]

\* a loadWeekSchedule and a loadMonthSchedule that were started from the same
\* state, by the same effects, and that both succeeded
StartedTogether(a, b) ==
    /\ {a.request.api, b.request.api} = {"getWeekSchedule", "getMonthSchedule"}
    /\ a.request.availabilityData = b.request.availabilityData
    /\ \/ a.request.effect = "initialization" /\ b.request.effect = "initialization"
       \/ {a.request.effect, b.request.effect} = {"week", "month"}
    /\ a.success /\ b.success

\* C25: when loadWeekSchedule and loadMonthSchedule are started from the same
\* state and both succeed, then once the second of them has completed, in
\* either order, availabilityData contains every entry the week response
\* delivered and every entry the month response delivered.
C25_NoLostUpdate ==
    [][ \A later \in completedLoads' \ completedLoads :
          \A earlier \in completedLoads :
             StartedTogether(earlier, later) =>
                 /\ ContainsEntries(availabilityData', DeliveredBy(earlier.request))
                 /\ ContainsEntries(availabilityData', DeliveredBy(later.request)) ]_vars

\* C26: whenever the page is initialized, not in reset state and no request
\* is in flight, each entry of currentWeekData has the availability that
\* availabilityData holds for its date, or the fallback when it holds none.
C26_WeekViewShowsLoadedData ==
    (isInitialized /\ isAuthenticated /\ ~checkingResetState /\ ~isResetState
       /\ inFlight = {}) =>
        \A i \in DOMAIN currentWeekData :
            currentWeekData[i].availability =
                AvailabilityOfDate(availabilityData, currentWeekData[i].date)

\* C27: loading is true whenever a request the page issued is still in
\* flight, and false once none is.
C27_LoadingWhileInFlight == loading <=> (inFlight # {})

\* C28: while a modal shows the selected date and no slot request is in
\* flight, daySlots is the answer to the request issued for selectedDate: the
\* slots of that date, or the empty list when the request failed.
C28_SlotsOfSelectedDate ==
    (/\ showTimeModal \/ showSlotModal
     /\ selectedDate # NoDate
     /\ \A request \in inFlight : request.api # "getSlotsForDate") =>
        daySlots \in { MapSlots(ServerSlots(selectedDate)), <<>> }

====
